---- MODULE Spec2Model ----
(***************************************************************************)
(* A model of the colour-management transform engine of libweston's        *)
(* color-lcms plugin: the pipeline optimizer of color-transform.c          *)
(* (merge_matrices, merge_curvesets, lcms_optimize_pipeline,               *)
(* translate_pipeline), the profile store of color-profile.c and the       *)
(* transform cache of color-transform.c.                                   *)
(*                                                                         *)
(* Numbers.  The C code works on IEEE doubles; the model works on exact    *)
(* rationals.  A matrix stage is an integer 3x3 array of numerators in     *)
(* row-major order (the layout of _cmsStageMatrixData.Double) over one     *)
(* positive denominator; a curve parameter is a pair <<num, den>>.  Tone   *)
(* curves are evaluated on a grid of GridMax + 1 points of [0, 1].         *)
(***************************************************************************)
EXTENDS Integers, Sequences, FiniteSets, TLC

\* ------------------------------------------------------------------ bounds

\* Longest pipeline handed to the optimizer.
MaxStages == 3

\* Tone curves are sampled at the grid points 0/GridMax .. GridMax/GridMax.
GridMax == 4

\* ------------------------------------------------------- program constants

\* color-transform.c:51, precision for detecting an identity matrix.
MATRIX_PRECISION_BITS == 12

\* color-transform.c:61 and :67.
cmlcms_reasonable_1D_points == 1024
cmlcms_reasonable_3D_points == 33

\* ------------------------------------------------------------- arithmetic

Abs(x) == IF x < 0 THEN -x ELSE x

RECURSIVE Pow(_, _)
Pow(b, e) == IF e = 0 THEN 1 ELSE b * Pow(b, e - 1)

Max2(a, b) == IF a < b THEN b ELSE a

\* Rationals are pairs <<num, den>> with den > 0.
RatEq(a, b) == a[1] * b[2] = b[1] * a[2]
RatMul(a, b) == <<a[1] * b[1], a[2] * b[2]>>
\* 1/a for a # 0, with the sign kept in the numerator.
RatInv(a) == IF a[1] < 0 THEN <<-a[2], -a[1]>> ELSE <<a[2], a[1]>>

\* ----------------------------------------------------------------- stages

\* The stage types the optimizer tells apart (cmsStageType).
cmsSigMatrixElemType == "Matrix"
cmsSigCurveSetElemType == "CurveSet"
cmsSigCLutElemType == "CLut"

\* The NULL stage pointer.
NoStage ==
    [type |-> "NULL", Double |-> <<>>, den |-> 1, Offset |-> <<>>, TheCurves |-> <<>>]

\* A matrix stage: Double is row-major, Offset is <<>> (a NULL Offset) or
\* three numerators over den.
MatrixStage(D, den, off) ==
    [type |-> cmsSigMatrixElemType, Double |-> D, den |-> den, Offset |-> off,
     TheCurves |-> <<>>]

\* A curve-set stage of nCurves = Len(curves) tone curves.
CurveSetStage(curves) ==
    [type |-> cmsSigCurveSetElemType, Double |-> <<>>, den |-> 1, Offset |-> <<>>,
     TheCurves |-> curves]

\* A stage the optimizer does not understand (a cLUT).
CLutStage ==
    [type |-> cmsSigCLutElemType, Double |-> <<>>, den |-> 1, Offset |-> <<>>,
     TheCurves |-> <<>>]

\* A tone curve: a parametric curve of LittleCMS type ptype with its
\* parameters (g for types 1 and -1; g, a, b, c, d for types 4 and -4), or a
\* tabulated curve (ptype = 0) with its samples on the grid.
ParametricCurve(ptype, params) == [ptype |-> ptype, params |-> params, tbl |-> <<>>]
TabulatedCurve(tbl) == [ptype |-> 0, params |-> <<>>, tbl |-> tbl]

Triple(c) == <<c, c, c>>

\* --------------------------------------------------------- tone-curve maths

\* pow() is computed to finite precision: values in [0, 1] are fixed-point
\* numbers with FixedOne as 1.0, and every product is truncated.
FixedOne == 2^12

FxMul(a, b) == (a * b) \div FixedOne

RECURSIVE FxPow(_, _)
FxPow(x, p) == IF p = 0 THEN FixedOne ELSE FxMul(x, FxPow(x, p - 1))

\* The largest y in lo..hi with y^q <= x, given lo^q <= x.
RECURSIVE FxRootSearch(_, _, _, _)
FxRootSearch(lo, hi, x, q) ==
    IF lo >= hi THEN lo
    ELSE IF FxPow((lo + hi + 1) \div 2, q) <= x
         THEN FxRootSearch((lo + hi + 1) \div 2, hi, x, q)
         ELSE FxRootSearch(lo, ((lo + hi + 1) \div 2) - 1, x, q)

FxRoot(x, q) == IF q = 1 THEN x ELSE FxRootSearch(0, FixedOne, x, q)

\* The grid index nearest to GridMax * r^(g), for a rational r >= 0 and an
\* exponent g = p/q >= 0, saturated at GridMax; pow(0, 0) = 1.
PowGrid(r, g) ==
    IF g[1] = 0 \/ r[1] >= r[2] THEN GridMax
    ELSE IF r[1] = 0 THEN 0
    ELSE (2 * GridMax * FxRoot(FxPow((r[1] * FixedOne) \div r[2], g[1]), g[2])
          + FixedOne) \div (2 * FixedOne)

\* The grid index nearest to GridMax * r for a rational r >= 0, saturated.
LinGrid(r) ==
    LET err(v) == Abs(v * r[2] - r[1] * GridMax)
    IN  CHOOSE v \in 0..GridMax :
            \A w \in 0..GridMax : err(v) < err(w) \/ (err(v) = err(w) /\ v <= w)

\* cmsEvalToneCurveFloat at the grid point i / GridMax, as a grid index.
\* Type 1: y = x^g.  Type -1: y = x^(1/g).  Type 4: y = (a x + b)^g for
\* x >= d, y = c x otherwise.  Type -4 is evaluated as the table inverse of
\* type 4: the largest grid point whose type-4 image does not exceed x.
RECURSIVE EvalToneCurve(_, _)
EvalToneCurve(c, i) ==
    LET x == <<i, GridMax>>
    IN  CASE c.ptype = 0 -> c.tbl[i + 1]
          [] c.ptype = 1 -> PowGrid(x, c.params[1])
          [] c.ptype = -1 ->
                IF c.params[1][1] = 0 THEN GridMax
                ELSE PowGrid(x, RatInv(c.params[1]))
          [] c.ptype = 4 ->
                LET g == c.params[1]
                    a == c.params[2]
                    b == c.params[3]
                    cc == c.params[4]
                    d == c.params[5]
                    axb == <<a[1] * i * b[2] + b[1] * a[2] * GridMax,
                             a[2] * GridMax * b[2]>>
                IN  IF i * d[2] >= d[1] * GridMax
                    THEN (IF axb[1] < 0 THEN 0 ELSE PowGrid(axb, g))
                    ELSE (IF cc[1] < 0 THEN 0 ELSE LinGrid(<<cc[1] * i, cc[2] * GridMax>>))
          [] c.ptype = -4 ->
                LET fwd == ParametricCurve(4, c.params)
                    below == {j \in 0..GridMax : EvalToneCurve(fwd, j) <= i}
                IN  IF below = {} THEN 0
                    ELSE CHOOSE j \in below : \A k \in below : k <= j
          [] OTHER -> i

\* The samples of a curve on the whole grid.
CurveTable(c) == [k \in 1..(GridMax + 1) |-> EvalToneCurve(c, k - 1)]

\* cmsIsToneCurveLinear: the curve's samples are the identity ramp.
cmsIsToneCurveLinear(c) == \A i \in 0..GridMax : EvalToneCurve(c, i) = i

\* ------------------------------------------------------------ matrix stages

\* The identity as a row-major array.
IdentityDouble == <<1, 0, 0, 0, 1, 0, 0, 0, 1>>

\* stage_matrix_transpose: the cast of the row-major Double array to a
\* cmsMAT3; element v[i].n[j] of the result is Double[3 i + j].
stage_matrix_transpose(D) == [i \in 0..2 |-> [j \in 0..2 |-> D[3 * i + j + 1]]]

\* _cmsMAT3per(r, a, b): r.v[i].n[j] = sum over k of a.v[i].n[k] * b.v[k].n[j].
cmsMAT3per(a, b) ==
    [i \in 0..2 |-> [j \in 0..2 |->
        a[i][0] * b[0][j] + a[i][1] * b[1][j] + a[i][2] * b[2][j]]]

\* The cast of a cmsMAT3 back to an array of nine doubles.
MAT3AsDouble(m) == [k \in 1..9 |-> m[(k - 1) \div 3][(k - 1) % 3]]

\* matrix_inf_norm of (mat - identity), as a numerator over the stage's
\* denominator: the largest sum over col of |mat->v[col].n[row]|.
matrix_inf_norm(m) ==
    LET sum(row) == Abs(m[0][row]) + Abs(m[1][row]) + Abs(m[2][row])
    IN  Max2(sum(0), Max2(sum(1), sum(2)))

\* matrix_is_identity: -log2(err) >= bits_precision, that is
\* err <= 2^-bits_precision, for err = |mat - I|_inf = num / den.
matrix_is_identity(D, den, bits_precision) ==
    LET m == stage_matrix_transpose(D)
        tmp == [i \in 0..2 |-> [j \in 0..2 |->
                    IF i = j THEN m[i][j] - den ELSE m[i][j]]]
    IN  matrix_inf_norm(tmp) * Pow(2, bits_precision) <= den

is_matrix_stage_with_zero_offset(stage) ==
    /\ stage # NoStage
    /\ stage.type = cmsSigMatrixElemType
    /\ \/ stage.Offset = <<>>
       \/ \A r \in 1..Len(stage.Offset) : stage.Offset[r] = 0

is_identity_matrix_stage(stage) ==
    /\ is_matrix_stage_with_zero_offset(stage)
    /\ matrix_is_identity(stage.Double, stage.den, MATRIX_PRECISION_BITS)

\* The mutant: the operands of the product swapped (prev * next).
multiply_matrix_stages_swapped(next, prev) ==
    MatrixStage(
        MAT3AsDouble(cmsMAT3per(stage_matrix_transpose(prev.Double),
                                stage_matrix_transpose(next.Double))),
        next.den * prev.den, <<>>)

\* multiply_matrix_stages: a new stage with a NULL offset whose array is
\* _cmsMAT3per(next, prev) read back as nine doubles.
multiply_matrix_stages(next, prev) ==
    MatrixStage(
        MAT3AsDouble(cmsMAT3per(stage_matrix_transpose(next.Double),
                                stage_matrix_transpose(prev.Double))),
        next.den * prev.den, <<>>)

\* The stage after position e of the list, NoStage past its end.
StageAt(lut, e) == IF e >= 1 /\ e <= Len(lut) THEN lut[e] ELSE NoStage

\* merge_matrices: one pass of the do-while loop per call.  prev is the stage
\* held back, e the position of elem in *lut (Len + 1 when elem is NULL).
RECURSIVE merge_matrices_loop(_, _, _, _, _)

\* The mutant: an identity matrix is reported as skipped and inserted all
\* the same.
merge_matrices_loop_keeping_identity(lut, prev, e, pipe, modified) ==
    LET elem == StageAt(lut, e)
        enext == IF elem # NoStage THEN e + 1 ELSE e
        merge == /\ is_matrix_stage_with_zero_offset(prev)
                 /\ is_matrix_stage_with_zero_offset(elem)
        skip == ~merge /\ prev # NoStage /\ is_identity_matrix_stage(prev)
        prev2 == IF merge THEN multiply_matrix_stages(elem, prev) ELSE elem
        pipe2 == IF ~merge /\ prev # NoStage THEN Append(pipe, prev) ELSE pipe
        mod2 == modified \/ merge \/ skip
    IN  IF prev2 = NoStage
        THEN [pipe |-> pipe2, modified |-> mod2]
        ELSE merge_matrices_loop(lut, prev2, enext, pipe2, mod2)

merge_matrices_loop(lut, prev, e, pipe, modified) ==
    LET elem == StageAt(lut, e)
        enext == IF elem # NoStage THEN e + 1 ELSE e
        merge == /\ is_matrix_stage_with_zero_offset(prev)
                 /\ is_matrix_stage_with_zero_offset(elem)
        skip == ~merge /\ prev # NoStage /\ is_identity_matrix_stage(prev)
        prev2 == IF merge THEN multiply_matrix_stages(elem, prev) ELSE elem
        pipe2 == IF ~merge /\ prev # NoStage /\ ~skip THEN Append(pipe, prev) ELSE pipe
        mod2 == modified \/ merge \/ skip
    IN  IF prev2 = NoStage
        THEN [pipe |-> pipe2, modified |-> mod2]
        ELSE merge_matrices_loop(lut, prev2, enext, pipe2, mod2)

merge_matrices(lut) == merge_matrices_loop(lut, NoStage, 1, <<>>, FALSE)

\* --------------------------------------------------------- curve-set stages

\* are_curves_inverse (color-curve-segments.c): both curves are parametric,
\* of opposite LittleCMS types (t and -t), with equal parameters.
are_curves_inverse(A, B) ==
    /\ A.ptype # 0
    /\ B.ptype = -A.ptype
    /\ Len(A.params) = Len(B.params)
    /\ \A k \in 1..Len(A.params) : RatEq(A.params[k], B.params[k])

\* are_curvesets_inverse: every channel's pair of curves is an inverse pair.
are_curvesets_inverse(set_A, set_B) ==
    /\ Len(set_A.TheCurves) = Len(set_B.TheCurves)
    /\ \A i \in 1..Len(set_A.TheCurves) :
           are_curves_inverse(set_A.TheCurves[i], set_B.TheCurves[i])

\* The exponent of a pure power-law curve: g for type 1, 1/g for type -1.
PowerlawExponent(c) == IF c.ptype = 1 THEN c.params[1] ELSE RatInv(c.params[1])

IsPowerlaw(c) ==
    \/ c.ptype = 1
    \/ c.ptype = -1 /\ c.params[1][1] # 0

\* join_powerlaw_curvesets (color-curve-segments.c): when every curve of
\* both sets is a pure power law, the curve set of the products of the
\* exponents, still parametric; NoStage (NULL) otherwise.
join_powerlaw_curvesets(set_A, set_B) ==
    IF \A i \in 1..3 : IsPowerlaw(set_A[i]) /\ IsPowerlaw(set_B[i])
    THEN CurveSetStage([i \in 1..3 |->
            ParametricCurve(1, <<RatMul(PowerlawExponent(set_A[i]),
                                        PowerlawExponent(set_B[i]))>>)])
    ELSE NoStage

\* lcmsJoinToneCurve: the tabulated curve of the samples Y(X(t)).
lcmsJoinToneCurve(X, Y) ==
    TabulatedCurve([k \in 1..(GridMax + 1) |->
                        EvalToneCurve(Y, EvalToneCurve(X, k - 1))])

\* join_curvesets, for two sets of three curves: the closed-form join when
\* there is one, the sampled join otherwise.
join_curvesets(prev, next) ==
    LET ret == join_powerlaw_curvesets(prev.TheCurves, next.TheCurves)
    IN  IF ret # NoStage THEN ret
        ELSE CurveSetStage([i \in 1..3 |->
                lcmsJoinToneCurve(prev.TheCurves[i], next.TheCurves[i])])

is_identity_curve_stage(stage) ==
    /\ stage.type = cmsSigCurveSetElemType
    /\ \A i \in 1..Len(stage.TheCurves) : cmsIsToneCurveLinear(stage.TheCurves[i])

\* merge_curvesets: one pass of the do-while loop per call, as in
\* merge_matrices_loop.  Beside the new pipeline and the modified flag the
\* result records what the pass did: inv_pairs, the positions e of *lut at
\* which the stages e - 1 and e of *lut were dropped as an inverse pair
\* (pidx is the position of prev in *lut, 0 when prev is a joined stage);
\* id_dropped, whether an identity curve set was skipped; aborted, whether
\* join_curvesets' assertion on nCurves failed.
RECURSIVE merge_curvesets_loop(_, _, _, _, _, _)

\* The mutant: only the first stage of the pair is dropped; elem stays as
\* prev.
merge_curvesets_inverse_drop_one(lut, pidx, e, pipe, acc) ==
    merge_curvesets_loop(lut, StageAt(lut, e), 0, e + 1, pipe,
        [acc EXCEPT !.modified = TRUE,
                    !.inv_pairs = IF pidx = e - 1 THEN @ \cup {e} ELSE @])

\* The branch for an inverse pair: prev becomes the stage after elem and
\* elem the one after that; nothing is inserted; the loop continues.
merge_curvesets_inverse(lut, pidx, e, pipe, acc) ==
    LET acc2 == [acc EXCEPT !.modified = TRUE,
                   !.inv_pairs = IF pidx = e - 1 THEN @ \cup {e} ELSE @]
    IN  IF StageAt(lut, e + 1) = NoStage
        THEN [acc2 EXCEPT !.pipe = pipe]
        ELSE merge_curvesets_loop(lut, StageAt(lut, e + 1), e + 1, e + 2,
                                  pipe, acc2)

merge_curvesets_loop(lut, prev, pidx, e, pipe, acc) ==
    LET elem == StageAt(lut, e)
        enext == IF elem # NoStage THEN e + 1 ELSE e
        both == /\ prev # NoStage /\ prev.type = cmsSigCurveSetElemType
                /\ elem # NoStage /\ elem.type = cmsSigCurveSetElemType
        inverse == both /\ are_curvesets_inverse(prev, elem)
        bad == both /\ ~inverse
                    /\ (Len(prev.TheCurves) # 3 \/ Len(elem.TheCurves) # 3)
        skip == ~both /\ prev # NoStage /\ is_identity_curve_stage(prev)
    IN  IF bad
        THEN [acc EXCEPT !.pipe = pipe, !.aborted = TRUE]
        ELSE IF inverse
        THEN merge_curvesets_inverse(lut, pidx, e, pipe, acc)
        ELSE LET prev2 == IF both THEN join_curvesets(prev, elem) ELSE elem
                 pidx2 == IF both \/ elem = NoStage THEN 0 ELSE e
                 pipe2 == IF ~both /\ prev # NoStage /\ ~skip
                          THEN Append(pipe, prev) ELSE pipe
                 acc2 == [acc EXCEPT !.modified = @ \/ both \/ skip,
                                     !.id_dropped = @ \/ skip]
             IN  IF prev2 = NoStage
                 THEN [acc2 EXCEPT !.pipe = pipe2]
                 ELSE merge_curvesets_loop(lut, prev2, pidx2, enext, pipe2, acc2)

merge_curvesets(lut) ==
    merge_curvesets_loop(lut, NoStage, 0, 1, <<>>,
        [pipe |-> <<>>, modified |-> FALSE, inv_pairs |-> {},
         id_dropped |-> FALSE, aborted |-> FALSE])

\* ------------------------------------------------------------ the optimizer

\* lcms_optimize_pipeline: merge_matrices then merge_curvesets, again and
\* again until a round in which neither reports a modification.  rounds
\* counts the rounds run; first_mm and first_mc are what the two passes of
\* the first round reported; id_dropped tells whether any round dropped an
\* identity curve set.
RECURSIVE lcms_optimize_loop(_, _)

\* The mutant: a single round, whatever the passes report.
lcms_optimize_round_once(acc, mm, mc) ==
    [pipe |-> mc.pipe,
     rounds |-> acc.rounds + 1,
     first_mm |-> IF acc.rounds = 0 THEN mm.modified ELSE acc.first_mm,
     first_mc |-> IF acc.rounds = 0 THEN mc.modified ELSE acc.first_mc,
     id_dropped |-> acc.id_dropped \/ mc.id_dropped,
     aborted |-> mc.aborted]

\* The end of one round: mm and mc are what merge_matrices and
\* merge_curvesets returned in it.
lcms_optimize_round(acc, mm, mc) ==
    LET acc2 == [pipe |-> mc.pipe,
                 rounds |-> acc.rounds + 1,
                 first_mm |-> IF acc.rounds = 0 THEN mm.modified ELSE acc.first_mm,
                 first_mc |-> IF acc.rounds = 0 THEN mc.modified ELSE acc.first_mc,
                 id_dropped |-> acc.id_dropped \/ mc.id_dropped,
                 aborted |-> mc.aborted]
    IN  IF mc.aborted \/ ~(mm.modified \/ mc.modified)
        THEN acc2
        ELSE lcms_optimize_loop(mc.pipe, acc2)

lcms_optimize_matrices_done(acc, mm) ==
    lcms_optimize_round(acc, mm, merge_curvesets(mm.pipe))

lcms_optimize_loop(lut, acc) ==
    lcms_optimize_matrices_done(acc, merge_matrices(lut))

lcms_optimize_pipeline(lut) ==
    lcms_optimize_loop(lut,
        [pipe |-> lut, rounds |-> 0, first_mm |-> FALSE, first_mc |-> FALSE,
         id_dropped |-> FALSE, aborted |-> FALSE])

\* ----------------------------------------------- translation to the 3 steps

\* weston_color_curve: type is IDENTITY, LUT_3x1D, LINPOW or POWLIN; params
\* holds, per channel, <<g, a, b, c, d>> for a parametric curve;
\* optimal_len is set for a LUT.
WestonCurve(type, params, optimal_len) ==
    [type |-> type, params |-> params, optimal_len |-> optimal_len]

IdentityCurve == WestonCurve("IDENTITY", <<>>, 0)

\* weston_color_mapping: type is IDENTITY, MATRIX or 3D_LUT; matrix is
\* column-major over den.
WestonMapping(type, matrix, den, optimal_len) ==
    [type |-> type, matrix |-> matrix, den |-> den, optimal_len |-> optimal_len]

IdentityMapping == WestonMapping("IDENTITY", <<>>, 1, 0)

Rat0 == <<0, 1>>
Rat1 == <<1, 1>>
RatNeg(a) == <<-a[1], a[2]>>
RatLess0(a) == a[1] < 0
RatAdd(a, b) == <<a[1] * b[2] + b[1] * a[2], a[2] * b[2]>>

\* get_parametric_curveset_params (color-curve-segments.c): the three curves
\* are parametric and of one type.
get_parametric_curveset_params(curves) ==
    /\ curves[1].ptype # 0
    /\ \A i \in 1..3 : curves[i].ptype = curves[1].ptype

\* The number of channels a conversion loop has written when it stops: all
\* three, or those before the first channel of bad, the channels it rejects.
ChannelsWritten(bad) ==
    IF bad = {} THEN 3
    ELSE (CHOOSE i \in bad : \A j \in bad : i <= j) - 1

\* The four conversions write curve->type first and then the parameters
\* channel by channel; a rejected channel leaves the type and the earlier
\* channels written.
linpow_from_type_1(curves) ==
    [ok |-> TRUE,
     curve |-> WestonCurve("LINPOW",
        [i \in 1..3 |-> <<curves[i].params[1], Rat1, Rat0, Rat1, Rat0>>], 0)]

\* The mutant: the exponent is inverted without the test for zero.
linpow_from_type_1_inverse_unchecked(curves) ==
    [ok |-> TRUE,
     curve |-> WestonCurve("LINPOW",
        [i \in 1..3 |-> <<RatInv(curves[i].params[1]), Rat1, Rat0, Rat1, Rat0>>], 0)]

linpow_from_type_1_inverse(curves) ==
    LET bad == {i \in 1..3 : curves[i].params[1][1] = 0}
    IN  [ok |-> bad = {},
         curve |-> WestonCurve("LINPOW",
            [i \in 1..ChannelsWritten(bad) |->
                <<RatInv(curves[i].params[1]), Rat1, Rat0, Rat1, Rat0>>], 0)]

\* The mutant: the test of a * d + b is left out.
linpow_from_type_4_unchecked_sum(curves) ==
    LET bad == {i \in 1..3 :
                  RatLess0(curves[i].params[2]) \/ RatLess0(curves[i].params[5])}
    IN  [ok |-> bad = {},
         curve |-> WestonCurve("LINPOW",
            [i \in 1..ChannelsWritten(bad) |-> curves[i].params], 0)]

linpow_from_type_4(curves) ==
    LET bad == {i \in 1..3 :
                  LET a == curves[i].params[2]
                      b == curves[i].params[3]
                      d == curves[i].params[5]
                  IN  RatLess0(a) \/ RatLess0(d) \/ RatLess0(RatAdd(RatMul(a, d), b))}
    IN  [ok |-> bad = {},
         curve |-> WestonCurve("LINPOW",
            [i \in 1..ChannelsWritten(bad) |-> curves[i].params], 0)]

\* The mutant: b is divided by a without the change of sign.
powlin_from_type_4_inverse_unsigned(curves) ==
    LET bad == {i \in 1..3 :
                  \/ curves[i].params[1][1] = 0
                  \/ curves[i].params[2][1] = 0
                  \/ curves[i].params[4][1] = 0}
    IN  [ok |-> bad = {},
         curve |-> WestonCurve("POWLIN",
            [i \in 1..ChannelsWritten(bad) |->
                <<RatInv(curves[i].params[1]), RatInv(curves[i].params[2]),
                  RatMul(curves[i].params[3], RatInv(curves[i].params[2])),
                  RatInv(curves[i].params[4]),
                  RatMul(curves[i].params[4], curves[i].params[5])>>], 0)]

powlin_from_type_4_inverse(curves) ==
    LET bad == {i \in 1..3 :
                  \/ curves[i].params[1][1] = 0
                  \/ curves[i].params[2][1] = 0
                  \/ curves[i].params[4][1] = 0}
    IN  [ok |-> bad = {},
         curve |-> WestonCurve("POWLIN",
            [i \in 1..ChannelsWritten(bad) |->
                LET g == curves[i].params[1]
                    a == curves[i].params[2]
                    b == curves[i].params[3]
                    c == curves[i].params[4]
                    d == curves[i].params[5]
                IN  <<RatInv(g), RatInv(a), RatMul(RatNeg(b), RatInv(a)),
                      RatInv(c), RatMul(c, d)>>], 0)]

\* translate_curve_element_parametric on the curve as it is (curve): left
\* alone unless one of the four conversions is entered.
translate_curve_element_parametric(curve, curves) ==
    IF ~get_parametric_curveset_params(curves)
    THEN [ok |-> FALSE, curve |-> curve]
    ELSE CASE curves[1].ptype = 1 -> linpow_from_type_1(curves)
           [] curves[1].ptype = -1 -> linpow_from_type_1_inverse(curves)
           [] curves[1].ptype = 4 -> linpow_from_type_4(curves)
           [] curves[1].ptype = -4 -> powlin_from_type_4_inverse(curves)
           [] OTHER -> [ok |-> FALSE, curve |-> curve]

\* The mutant: the LUT path sets the length and leaves the type as found.
translate_curve_element_LUT_untyped(curve, curves) ==
    [ok |-> TRUE,
     curve |-> [curve EXCEPT !.optimal_len = cmlcms_reasonable_1D_points]]

\* translate_curve_element_LUT on the curve as it is: type and
\* u.lut_3x1d.optimal_len are overwritten (the parameters share a union with
\* u.lut_3x1d and are not part of a LUT curve).
translate_curve_element_LUT(curve, curves) ==
    [ok |-> TRUE,
     curve |-> [curve EXCEPT !.type = "LUT_3x1D",
                             !.optimal_len = cmlcms_reasonable_1D_points]]

\* The mutant: no LUT fallback for a curve set that is not parametric.
translate_curve_element_no_fallback(elem) ==
    IF Len(elem.TheCurves) # 3
    THEN [ok |-> FALSE, curve |-> IdentityCurve]
    ELSE translate_curve_element_parametric(IdentityCurve, elem.TheCurves)

\* ... after translate_curve_element_parametric returned par.
translate_curve_element_tried(elem, par) ==
    IF par.ok THEN par ELSE translate_curve_element_LUT(par.curve, elem.TheCurves)

\* translate_curve_element on a step that is still the identity curve.
translate_curve_element(elem) ==
    IF Len(elem.TheCurves) # 3
    THEN [ok |-> FALSE, curve |-> IdentityCurve]
    ELSE translate_curve_element_tried(elem,
            translate_curve_element_parametric(IdentityCurve, elem.TheCurves))

\* translate_matrix_element: the stage's array, transposed to column-major.
translate_matrix_element(elem) ==
    IF ~is_matrix_stage_with_zero_offset(elem)
    THEN [ok |-> FALSE, mapping |-> IdentityMapping]
    ELSE [ok |-> TRUE,
          mapping |-> WestonMapping("MATRIX",
            [k \in 1..9 |-> LET c == (k - 1) \div 3
                                r == (k - 1) % 3
                            IN  elem.Double[r * 3 + c + 1]],
            elem.den, 0)]

\* translate_pipeline: an optional curve set, an optional matrix, an
\* optional curve set, and nothing after.  base holds the three steps as the
\* function has written them when it returns.
TransformSteps(c1, m, c2) == [pre_curve |-> c1, mapping |-> m, post_curve |-> c2]

\* The mutant: whatever follows the three steps is ignored.
translate_pipeline_end_unchecked(lut, e, pre, map, post) ==
    IF ~post.ok
    THEN [ok |-> FALSE, base |-> TransformSteps(pre, map, post.curve)]
    ELSE [ok |-> TRUE, base |-> TransformSteps(pre, map, post.curve)]

\* After the post-curve has been tried at position e - 1 (or skipped).
translate_pipeline_end(lut, e, pre, map, post) ==
    IF ~post.ok
    THEN [ok |-> FALSE, base |-> TransformSteps(pre, map, post.curve)]
    ELSE [ok |-> e > Len(lut), base |-> TransformSteps(pre, map, post.curve)]

\* After the matrix has been tried: elem is at position e.
translate_pipeline_post(lut, e, pre, map) ==
    IF ~map.ok
    THEN [ok |-> FALSE, base |-> TransformSteps(pre, map.mapping, IdentityCurve)]
    ELSE IF e > Len(lut)
    THEN [ok |-> TRUE, base |-> TransformSteps(pre, map.mapping, IdentityCurve)]
    ELSE IF lut[e].type = cmsSigCurveSetElemType
    THEN translate_pipeline_end(lut, e + 1, pre, map.mapping,
                                translate_curve_element(lut[e]))
    ELSE translate_pipeline_end(lut, e, pre, map.mapping,
                                [ok |-> TRUE, curve |-> IdentityCurve])

\* After the pre-curve has been tried: elem is at position e.
translate_pipeline_matrix(lut, e, pre) ==
    IF ~pre.ok
    THEN [ok |-> FALSE, base |-> TransformSteps(pre.curve, IdentityMapping, IdentityCurve)]
    ELSE IF e > Len(lut)
    THEN [ok |-> TRUE, base |-> TransformSteps(pre.curve, IdentityMapping, IdentityCurve)]
    ELSE IF lut[e].type = cmsSigMatrixElemType
    THEN translate_pipeline_post(lut, e + 1, pre.curve, translate_matrix_element(lut[e]))
    ELSE translate_pipeline_post(lut, e, pre.curve,
                                 [ok |-> TRUE, mapping |-> IdentityMapping])

translate_pipeline(lut) ==
    IF lut = <<>>
    THEN [ok |-> TRUE, base |-> TransformSteps(IdentityCurve, IdentityMapping, IdentityCurve)]
    ELSE IF lut[1].type = cmsSigCurveSetElemType
    THEN translate_pipeline_matrix(lut, 2, translate_curve_element(lut[1]))
    ELSE translate_pipeline_matrix(lut, 1, [ok |-> TRUE, curve |-> IdentityCurve])

CMLCMS_TRANSFORM_FAILED == "FAILED"
CMLCMS_TRANSFORM_OPTIMIZED == "OPTIMIZED"
CMLCMS_TRANSFORM_3DLUT == "3DLUT"

\* optimize_float_pipeline: optimize, translate, and fall back to a 3D LUT
\* when the translation fails.  lut is the optimized pipeline left in *lut.
optimize_float_translated(opt, tr) ==
    IF tr.ok
    THEN [status |-> CMLCMS_TRANSFORM_OPTIMIZED, base |-> tr.base,
          lut |-> opt.pipe, aborted |-> opt.aborted]
    ELSE [status |-> CMLCMS_TRANSFORM_3DLUT,
          base |-> [pre_curve |-> IdentityCurve,
                    mapping |-> WestonMapping("3D_LUT", <<>>, 1,
                                              cmlcms_reasonable_3D_points),
                    post_curve |-> IdentityCurve],
          lut |-> opt.pipe, aborted |-> opt.aborted]

optimize_float_optimized(opt) ==
    optimize_float_translated(opt, translate_pipeline(opt.pipe))

optimize_float_pipeline(lut) ==
    optimize_float_optimized(lcms_optimize_pipeline(lut))

\* ------------------------------------------------- what a pipeline computes

\* A colour value: three numerators n over one denominator d > 0.
Colour(n, d) == [n |-> n, d |-> d]

ColourEq(u, v) == \A i \in 1..3 : u.n[i] * v.d = v.n[i] * u.d

\* A matrix stage applied to a value: Double * v + Offset.
ApplyMatrix(stage, v) ==
    Colour([i \in 1..3 |->
                stage.Double[3 * (i - 1) + 1] * v.n[1]
              + stage.Double[3 * (i - 1) + 2] * v.n[2]
              + stage.Double[3 * (i - 1) + 3] * v.n[3]
              + (IF stage.Offset = <<>> THEN 0 ELSE stage.Offset[i] * v.d)],
           stage.den * v.d)

\* An identity curve set applied to a value: the value clamped to [0, 1]
\* (color-transform.c:939-944: identity curve sets clamp their input).
ApplyIdentityCurves(v) ==
    Colour([i \in 1..3 |->
                IF v.n[i] < 0 THEN 0 ELSE IF v.n[i] > v.d THEN v.d ELSE v.n[i]],
           v.d)

\* A pipeline whose value the model computes exactly: matrices and identity
\* curve sets.
Evaluable(lut) ==
    \A k \in 1..Len(lut) :
        \/ lut[k].type = cmsSigMatrixElemType
        \/ is_identity_curve_stage(lut[k])

RECURSIVE ApplyPipeline(_, _)
ApplyPipeline(lut, v) ==
    IF lut = <<>> THEN v
    ELSE ApplyPipeline(Tail(lut),
            IF Head(lut).type = cmsSigMatrixElemType
            THEN ApplyMatrix(Head(lut), v)
            ELSE ApplyIdentityCurves(v))

\* The values pipelines are compared at: in-range colours over quarters.
TestColours ==
    {Colour(<<r, g, b>>, 4) : r \in {0, 3, 4}, g \in {1, 3}, b \in {0, 2}}

\* ------------------------------------------------------ the stages explored

CurveIdentity == ParametricCurve(1, <<Rat1>>)
CurvePow2 == ParametricCurve(1, <<(<<2, 1>>)>>)
CurvePow2Inv == ParametricCurve(-1, <<(<<2, 1>>)>>)
\* y = x^2 for x >= 1/2, y = x / 2 below.
CurveType4 == ParametricCurve(4, <<(<<2, 1>>), Rat1, Rat0, (<<1, 2>>), (<<1, 2>>)>>)

StageScale2 == MatrixStage(<<2, 0, 0, 0, 2, 0, 0, 0, 2>>, 1, <<0, 0, 0>>)
StageHalf == MatrixStage(IdentityDouble, 2, <<>>)
StageSwap == MatrixStage(<<0, 1, 0, 1, 0, 0, 0, 0, 1>>, 1, <<>>)
StageShear == MatrixStage(<<1, 1, 0, 0, 1, 0, 0, 0, 1>>, 1, <<>>)
StageOffset == MatrixStage(IdentityDouble, 1, <<1, 0, 0>>)
StageCurvesIdentity == CurveSetStage(Triple(CurveIdentity))
StageCurvesPow2 == CurveSetStage(Triple(CurvePow2))
StageCurvesPow2Inv == CurveSetStage(Triple(CurvePow2Inv))
StageCurvesType4 == CurveSetStage(Triple(CurveType4))
\* A curve set of a single curve (nCurves = 1).
StageCurvesMono == CurveSetStage(<<CurvePow2>>)

StageAlphabet ==
    {StageScale2, StageHalf, StageSwap, StageShear, StageOffset,
     StageCurvesIdentity, StageCurvesPow2, StageCurvesPow2Inv, StageCurvesType4,
     StageCurvesMono, CLutStage}

\* Every pipeline of at most MaxStages stages.
Pipelines == UNION {[1..n -> StageAlphabet] : n \in 0..MaxStages}

\* ------------------------------------------------------------ ICC profiles

\* The calls explored: every behaviour makes at most MaxCalls calls into the
\* colour manager.
MaxCalls == 3

\* Pointers are slot numbers; object n of a kind lives in slot n.
NULL == 0
ProfileSlots == 1..(MaxCalls + 1)
TransformSlots == 1..MaxCalls

\* enum cmlcms_profile_type and enum cmlcms_category.
CMLCMS_PROFILE_TYPE_ICC == "ICC"
CMLCMS_PROFILE_TYPE_PARAMS == "PARAMS"
CMLCMS_CATEGORY_INPUT_TO_BLEND == "INPUT_TO_BLEND"
CMLCMS_CATEGORY_BLEND_TO_OUTPUT == "BLEND_TO_OUTPUT"
CMLCMS_CATEGORY_INPUT_TO_OUTPUT == "INPUT_TO_OUTPUT"

\* The entries of the render intent table that callers point to, and the
\* NULL intent of blend-to-output.
WESTON_RENDER_INTENT_PERCEPTUAL == "PERCEPTUAL"
WESTON_RENDER_INTENT_RELATIVE == "RELATIVE"
NoIntent == "NULL"
RenderIntents == {WESTON_RENDER_INTENT_PERCEPTUAL, WESTON_RENDER_INTENT_RELATIVE}

\* An ICC byte buffer, by what the code reads from it: the header's major
\* version, channel count and device class, the header fields that the
\* profile ID leaves out (hdr), and the tags (body).
IccData(version, channels, class, hdr, body) ==
    [version |-> version, channels |-> channels, class |-> class,
     hdr |-> hdr, body |-> body]

NoIccData == IccData(0, 0, "", 0, "")

\* The profile cmsCreate_sRGBProfileTHR builds: matrix-shaper, no VCGT.
StockIccData == IccData(4, 3, "Display", 0, "sRGB")

\* The buffers handed in: two that differ in ignored header fields only, a
\* cLUT profile, a cLUT profile whose EOTF cannot be estimated, and a profile
\* of an unsupported version, a CMYK profile, and an input-class profile.
IccBuffers ==
    {IccData(4, 3, "Display", 0, "A"),
     IccData(4, 3, "Display", 1, "A"),
     IccData(2, 3, "Display", 0, "B"),
     IccData(2, 3, "Display", 0, "C"),
     IccData(5, 3, "Display", 0, "A"),
     IccData(4, 4, "Display", 0, "A"),
     IccData(4, 3, "Input", 0, "A")}

\* The mutant: the device class is not looked at.
validate_icc_profile_any_class(icc) ==
    /\ icc.version \in {2, 4}
    /\ icc.channels = 3

validate_icc_profile(icc) ==
    /\ icc.version \in {2, 4}
    /\ icc.channels = 3
    /\ icc.class = "Display"

\* What validate_icc_profile leaves in *errmsg (the numbers left out); ""
\* when it leaves it alone.
validate_icc_profile_errmsg(icc) ==
    IF icc.version \notin {2, 4}
    THEN "ICC profile major version is unsupported, should be 2 or 4."
    ELSE IF icc.channels # 3
    THEN "ICC profile must contain 3 channels for the color space."
    ELSE IF icc.class # "Display"
    THEN "ICC profile is required to be of Display device class."
    ELSE ""

\* cmsMD5computeID then cmsGetHeaderProfileID: the digest of the buffer with
\* the ignored header fields zeroed.
cmsMD5computeID(icc) == <<icc.version, icc.channels, icc.class, icc.body>>

NoMd5 == <<>>

\* cmsIsMatrixShaper.
cmsIsMatrixShaper(icc) == icc.body \in {"sRGB", "A"}

\* The TRC tags of a matrix-shaper profile.
TRCTag(icc) == IF icc.body = "sRGB" THEN Triple(CurveType4) ELSE Triple(CurvePow2)

\* build_eotf_from_clut_profile: sampled curves, <<>> when it fails.
build_eotf_from_clut_profile(icc) ==
    IF icc.body = "B" THEN Triple(TabulatedCurve(CurveTable(CurvePow2))) ELSE <<>>

\* cmsReverseToneCurve: a parametric curve is reversed analytically (type t
\* becomes type -t), a sampled curve by table lookup.
cmsReverseToneCurve(c) ==
    IF c.ptype # 0 THEN ParametricCurve(-c.ptype, c.params)
    ELSE TabulatedCurve([k \in 1..(GridMax + 1) |->
            LET below == {j \in 0..GridMax : c.tbl[j + 1] <= k - 1}
            IN  IF below = {} THEN 0 ELSE CHOOSE j \in below : \A m \in below : m <= j])

\* The VCGT tag: <<>> when the profile has none.
VcgtTag(icc) ==
    IF icc.body = "A" THEN Triple(TabulatedCurve(CurveTable(CurveType4))) ELSE <<>>

\* ensure_output_profile_extract_icc: the EOTF curves, their inverses and
\* the VCGT curves (<<>> for a NULL vcgt profile) of a profile, each wrapped
\* in a linearization device link.
ensure_output_profile_extract_icc(icc) ==
    LET eotf_curves == IF cmsIsMatrixShaper(icc) THEN TRCTag(icc)
                       ELSE build_eotf_from_clut_profile(icc)
    IN  IF eotf_curves = <<>>
        THEN [ok |-> FALSE, eotf |-> <<>>, inv_eotf |-> <<>>, vcgt |-> <<>>]
        ELSE [ok |-> TRUE,
              eotf |-> eotf_curves,
              inv_eotf |-> [i \in 1..3 |-> cmsReverseToneCurve(eotf_curves[i])],
              vcgt |-> VcgtTag(icc)]

\* The stages LittleCMS links for a device profile: device to PCS when the
\* profile comes first in the chain, PCS to device otherwise.
ProfileMatrix(icc) ==
    IF icc.body = "sRGB" THEN MatrixStage(<<1, 1, 0, 0, 1, 0, 0, 0, 1>>, 1, <<>>)
    ELSE MatrixStage(<<0, 1, 0, 1, 0, 0, 0, 0, 1>>, 1, <<>>)

ProfileMatrixInverse(icc) ==
    IF icc.body = "sRGB" THEN MatrixStage(<<1, -1, 0, 0, 1, 0, 0, 0, 1>>, 1, <<>>)
    ELSE MatrixStage(<<0, 1, 0, 1, 0, 0, 0, 0, 1>>, 1, <<>>)

DeviceToPCS(icc) ==
    IF cmsIsMatrixShaper(icc)
    THEN <<CurveSetStage(TRCTag(icc)), ProfileMatrix(icc)>>
    ELSE <<CLutStage>>

PCSToDevice(icc) ==
    IF cmsIsMatrixShaper(icc)
    THEN <<ProfileMatrixInverse(icc),
           CurveSetStage([i \in 1..3 |-> cmsReverseToneCurve(TRCTag(icc)[i])])>>
    ELSE <<CLutStage>>

\* The mutant: blend-to-output leaves the VCGT out.
xform_chain_pipeline_without_vcgt(category, input_icc, output_icc) ==
    LET extract == ensure_output_profile_extract_icc(output_icc)
        vcgt == IF extract.vcgt # <<>> THEN <<CurveSetStage(extract.vcgt)>> ELSE <<>>
    IN  CASE category = CMLCMS_CATEGORY_INPUT_TO_BLEND ->
                DeviceToPCS(input_icc) \o PCSToDevice(output_icc)
                    \o <<CurveSetStage(extract.eotf)>>
          [] category = CMLCMS_CATEGORY_BLEND_TO_OUTPUT ->
                <<CurveSetStage(extract.inv_eotf)>>
          [] OTHER ->
                DeviceToPCS(input_icc) \o PCSToDevice(output_icc) \o vcgt

\* The chain xform_realize_chain forms and the pipeline
\* cmsCreateMultiprofileTransformTHR links from it: a linearization device
\* link contributes its curve set.
xform_chain_pipeline(category, input_icc, output_icc) ==
    LET extract == ensure_output_profile_extract_icc(output_icc)
        vcgt == IF extract.vcgt # <<>> THEN <<CurveSetStage(extract.vcgt)>> ELSE <<>>
    IN  CASE category = CMLCMS_CATEGORY_INPUT_TO_BLEND ->
                DeviceToPCS(input_icc) \o PCSToDevice(output_icc)
                    \o <<CurveSetStage(extract.eotf)>>
          [] category = CMLCMS_CATEGORY_BLEND_TO_OUTPUT ->
                <<CurveSetStage(extract.inv_eotf)>> \o vcgt
          [] OTHER ->
                DeviceToPCS(input_icc) \o PCSToDevice(output_icc) \o vcgt

\* ------------------------------------------- profile and transform objects

\* struct weston_color_profile_params, as the bytes memcmp reads.  The first
\* byte is the sign byte of a float: 0 and 128 encode +0.0 and -0.0.
ParamsStructs == {<<0, 1>>, <<128, 1>>, <<0, 2>>}

\* The values a parameter struct's bytes encode.
ParamsValue(params) == <<IF params[1] = 128 THEN 0 ELSE params[1], params[2]>>

\* memcmp over two buffers of the same length: 0 when all bytes agree, the
\* difference of the first bytes that differ otherwise.
memcmp(a, b) ==
    LET diff == {k \in 1..Len(a) : a[k] # b[k]}
    IN  IF diff = {} THEN 0
        ELSE LET k == CHOOSE n \in diff : \A m \in diff : n <= m
             IN  a[k] - b[k]

\* struct cmlcms_color_profile.  extract tells whether extract.eotf.p is set;
\* extract_made counts how many times the objects of the extract were made
\* for this profile.
ColorProfile(type, icc, md5sum, params, ref_count, extract) ==
    [alive |-> TRUE, type |-> type, icc |-> icc, md5sum |-> md5sum,
     params |-> params, ref_count |-> ref_count, extract |-> extract,
     extract_made |-> IF extract THEN 1 ELSE 0]

\* A slot that holds no profile.
NoProfile ==
    [alive |-> FALSE, type |-> CMLCMS_PROFILE_TYPE_ICC, icc |-> NoIccData,
     md5sum |-> NoMd5, params |-> <<>>, ref_count |-> 0, extract |-> FALSE,
     extract_made |-> 0]

\* struct cmlcms_color_transform_search_param.
SearchParam(category, input_profile, output_profile, render_intent) ==
    [category |-> category, input_profile |-> input_profile,
     output_profile |-> output_profile, render_intent |-> render_intent]

NoSearchParam == SearchParam("", NULL, NULL, NoIntent)

\* struct cmlcms_color_transform.
ColorTransform(search_key, ref_count, status, mapping) ==
    [alive |-> TRUE, search_key |-> search_key, ref_count |-> ref_count,
     status |-> status, mapping |-> mapping]

NoTransform ==
    [alive |-> FALSE, search_key |-> NoSearchParam, ref_count |-> 0,
     status |-> CMLCMS_TRANSFORM_FAILED, mapping |-> "IDENTITY"]

\* cm->sRGB_profile: the stock profile is the first object created.
sRGB_profile == 1

\* The colour manager's objects: cprofs and xforms are the profile and
\* transform slots, the two lists hold slot numbers, head first.
Heap(cprofs, color_profile_list, xforms, color_transform_list) ==
    [cprofs |-> cprofs, color_profile_list |-> color_profile_list,
     xforms |-> xforms, color_transform_list |-> color_transform_list]

\* wl_list_remove and wl_list_insert (at the head).
wl_list_remove(list, elm) == SelectSeq(list, LAMBDA x : x # elm)
wl_list_insert(list, elm) == <<elm>> \o list

\* The slot a fresh allocation gets: the lowest free one.
AllocProfile(h) ==
    CHOOSE p \in ProfileSlots :
        ~h.cprofs[p].alive /\ \A q \in 1..(p - 1) : h.cprofs[q].alive

AllocTransform(h) ==
    CHOOSE x \in TransformSlots :
        ~h.xforms[x].alive /\ \A q \in 1..(x - 1) : h.xforms[q].alive

\* cmlcms_color_profile_destroy: unlink and free.
cmlcms_color_profile_destroy(h, cprof) ==
    [h EXCEPT !.color_profile_list = wl_list_remove(@, cprof),
              !.cprofs[cprof] = NoProfile]

\* weston_color_profile_ref (color.c): one more reference.
weston_color_profile_ref(h, cprof) ==
    [h EXCEPT !.cprofs[cprof].ref_count = @ + 1]

\* weston_color_profile_unref (color.c): one reference less, and the
\* colour manager's destroy_color_profile at zero.
weston_color_profile_unref(h, cprof) ==
    IF h.cprofs[cprof].ref_count > 1
    THEN [h EXCEPT !.cprofs[cprof].ref_count = @ - 1]
    ELSE cmlcms_color_profile_destroy(h, cprof)

ref_cprof(h, cprof) == IF cprof = NULL THEN h ELSE weston_color_profile_ref(h, cprof)

unref_cprof(h, cprof) == IF cprof = NULL THEN h ELSE weston_color_profile_unref(h, cprof)

\* The mutant: the input profile's reference is not released.
cmlcms_color_transform_destroy_leaking(h, xform) ==
    LET unlinked == [h EXCEPT !.color_transform_list = wl_list_remove(@, xform)]
        released == unref_cprof(unlinked, h.xforms[xform].search_key.output_profile)
    IN  [released EXCEPT !.xforms[xform] = NoTransform]

\* cmlcms_color_transform_destroy: unlink, release both profile references,
\* free.
cmlcms_color_transform_destroy(h, xform) ==
    LET unlinked == [h EXCEPT !.color_transform_list = wl_list_remove(@, xform)]
        released == unref_cprof(
                        unref_cprof(unlinked, h.xforms[xform].search_key.input_profile),
                        h.xforms[xform].search_key.output_profile)
    IN  [released EXCEPT !.xforms[xform] = NoTransform]

\* weston_color_transform_ref and weston_color_transform_unref (color.c).
weston_color_transform_ref(h, xform) ==
    [h EXCEPT !.xforms[xform].ref_count = @ + 1]

weston_color_transform_unref(h, xform) ==
    IF h.xforms[xform].ref_count > 1
    THEN [h EXCEPT !.xforms[xform].ref_count = @ - 1]
    ELSE cmlcms_color_transform_destroy(h, xform)

\* --------------------------------------------------------- the profile store

\* wl_list_for_each with a return at the first match: the first element of
\* a list of slots that is among the matching slots, NULL if none.
FirstMatch(list, matching) ==
    LET hits == {k \in 1..Len(list) : list[k] \in matching}
    IN  IF hits = {} THEN NULL
        ELSE list[CHOOSE k \in hits : \A m \in hits : k <= m]

cmlcms_find_color_profile_by_md5(h, md5sum) ==
    FirstMatch(h.color_profile_list,
               {cprof \in ProfileSlots :
                   /\ h.cprofs[cprof].type = CMLCMS_PROFILE_TYPE_ICC
                   /\ h.cprofs[cprof].md5sum = md5sum})

\* The mutant: the parameters are compared as values, not as bytes.
cmlcms_find_color_profile_by_value(h, params) ==
    FirstMatch(h.color_profile_list,
               {cprof \in ProfileSlots :
                   /\ h.cprofs[cprof].type = CMLCMS_PROFILE_TYPE_PARAMS
                   /\ ParamsValue(h.cprofs[cprof].params) = ParamsValue(params)})

cmlcms_find_color_profile_by_params(h, params) ==
    FirstMatch(h.color_profile_list,
               {cprof \in ProfileSlots :
                   /\ h.cprofs[cprof].type = CMLCMS_PROFILE_TYPE_PARAMS
                   /\ memcmp(h.cprofs[cprof].params, params) = 0})

\* cmlcms_color_profile_create: a new ICC profile with one reference, linked
\* at the head of the profile list.
cmlcms_color_profile_create(h, cprof, profile) ==
    [h EXCEPT !.cprofs[cprof] =
                  ColorProfile(CMLCMS_PROFILE_TYPE_ICC, profile,
                               cmsMD5computeID(profile), <<>>, 1, FALSE),
              !.color_profile_list = wl_list_insert(@, cprof)]

\* The mutant: a buffer is never recognised; every call makes a profile.
cmlcms_get_color_profile_from_icc_no_lookup(h, icc_data) ==
    IF ~validate_icc_profile(icc_data)
    THEN [ok |-> FALSE, errmsg |-> validate_icc_profile_errmsg(icc_data),
          cprof_out |-> NULL, h |-> h]
    ELSE [ok |-> TRUE, errmsg |-> "", cprof_out |-> AllocProfile(h),
          h |-> cmlcms_color_profile_create(h, AllocProfile(h), icc_data)]

\* cmlcms_get_color_profile_from_icc, for a buffer LittleCMS can open: the
\* result, the profile handed out and the objects afterwards.
cmlcms_get_color_profile_from_icc(h, icc_data) ==
    IF ~validate_icc_profile(icc_data)
    THEN [ok |-> FALSE, errmsg |-> validate_icc_profile_errmsg(icc_data),
          cprof_out |-> NULL, h |-> h]
    ELSE IF cmlcms_find_color_profile_by_md5(h, cmsMD5computeID(icc_data)) # NULL
    THEN [ok |-> TRUE, errmsg |-> "",
          cprof_out |-> cmlcms_find_color_profile_by_md5(h, cmsMD5computeID(icc_data)),
          h |-> weston_color_profile_ref(h,
                    cmlcms_find_color_profile_by_md5(h, cmsMD5computeID(icc_data)))]
    ELSE [ok |-> TRUE, errmsg |-> "", cprof_out |-> AllocProfile(h),
          h |-> cmlcms_color_profile_create(h, AllocProfile(h), icc_data)]

\* cmlcms_get_color_profile_from_params.
cmlcms_get_color_profile_from_params(h, params) ==
    IF cmlcms_find_color_profile_by_params(h, params) # NULL
    THEN [ok |-> TRUE, errmsg |-> "",
          cprof_out |-> cmlcms_find_color_profile_by_params(h, params),
          h |-> weston_color_profile_ref(h,
                    cmlcms_find_color_profile_by_params(h, params))]
    ELSE [ok |-> TRUE, errmsg |-> "", cprof_out |-> AllocProfile(h),
          h |-> [h EXCEPT
                   !.cprofs[AllocProfile(h)] =
                       ColorProfile(CMLCMS_PROFILE_TYPE_PARAMS, NoIccData, NoMd5,
                                    params, 1, FALSE),
                   !.color_profile_list = wl_list_insert(@, AllocProfile(h))]]

\* The mutant: the extract is made again on every call.
ensure_output_profile_extract_recomputing(h, cprof) ==
    IF h.cprofs[cprof].type = CMLCMS_PROFILE_TYPE_ICC
    THEN IF ensure_output_profile_extract_icc(h.cprofs[cprof].icc).ok
         THEN [ok |-> TRUE, h |-> [h EXCEPT !.cprofs[cprof].extract = TRUE,
                                            !.cprofs[cprof].extract_made = @ + 1]]
         ELSE [ok |-> FALSE, h |-> h]
    ELSE [ok |-> FALSE, h |-> h]

\* ensure_output_profile_extract: nothing to do when the extract is there;
\* otherwise it is computed for an ICC profile and fails for a parametric
\* one.
ensure_output_profile_extract(h, cprof) ==
    IF h.cprofs[cprof].extract THEN [ok |-> TRUE, h |-> h]
    ELSE IF h.cprofs[cprof].type = CMLCMS_PROFILE_TYPE_ICC
    THEN IF ensure_output_profile_extract_icc(h.cprofs[cprof].icc).ok
         THEN [ok |-> TRUE, h |-> [h EXCEPT !.cprofs[cprof].extract = TRUE,
                                            !.cprofs[cprof].extract_made = @ + 1]]
         ELSE [ok |-> FALSE, h |-> h]
    ELSE [ok |-> FALSE, h |-> h]

\* ------------------------------------------------------- the transform cache

\* xform_realize_chain, for a transform whose output profile has its
\* extract.  asserted tells whether one of its assertions failed: the render
\* intent of blend-to-output is not NULL, the render intent of another
\* category is NULL, or blend-to-output fell back to the 3D LUT.
xform_realize_factory(search_key, r) ==
    [ok |-> TRUE, status |-> r.status, mapping |-> r.base.mapping.type,
     asserted |->
        \/ (search_key.category = CMLCMS_CATEGORY_BLEND_TO_OUTPUT)
             # (search_key.render_intent = NoIntent)
        \/ /\ r.status = CMLCMS_TRANSFORM_3DLUT
           /\ search_key.category = CMLCMS_CATEGORY_BLEND_TO_OUTPUT]

xform_realize_chain(h, search_key) ==
    IF \/ h.cprofs[search_key.output_profile].type = CMLCMS_PROFILE_TYPE_PARAMS
       \/ /\ search_key.input_profile # NULL
          /\ h.cprofs[search_key.input_profile].type = CMLCMS_PROFILE_TYPE_PARAMS
    THEN [ok |-> FALSE, status |-> CMLCMS_TRANSFORM_FAILED, mapping |-> "IDENTITY",
          asserted |-> FALSE]
    ELSE xform_realize_factory(search_key,
            optimize_float_pipeline(
                xform_chain_pipeline(
                    search_key.category,
                    IF search_key.input_profile = NULL THEN NoIccData
                    ELSE h.cprofs[search_key.input_profile].icc,
                    h.cprofs[search_key.output_profile].icc)))

\* cmlcms_color_transform_create, after the chain was realized (rc) for the
\* new transform xform: linked at the head of the transform list on
\* success, destroyed on failure.
cmlcms_color_transform_realized(h, xform, rc) ==
    IF rc.ok
    THEN [xform |-> xform, asserted |-> rc.asserted,
          h |-> [h EXCEPT !.xforms[xform].status = rc.status,
                          !.xforms[xform].mapping = rc.mapping,
                          !.color_transform_list = wl_list_insert(@, xform)]]
    ELSE [xform |-> NULL, asserted |-> rc.asserted,
          h |-> cmlcms_color_transform_destroy(h, xform)]

\* The mutant: the error path returns NULL without destroying the transform.
cmlcms_color_transform_extracted_leaking(xform, search_param, ex) ==
    IF ex.ok
    THEN cmlcms_color_transform_realized(ex.h, xform,
                                         xform_realize_chain(ex.h, search_param))
    ELSE [xform |-> NULL, asserted |-> FALSE, h |-> ex.h]

\* ... after ensure_output_profile_extract returned ex.
cmlcms_color_transform_extracted(xform, search_param, ex) ==
    IF ex.ok
    THEN cmlcms_color_transform_realized(ex.h, xform,
                                         xform_realize_chain(ex.h, search_param))
    ELSE [xform |-> NULL, asserted |-> FALSE,
          h |-> cmlcms_color_transform_destroy(ex.h, xform)]

\* ... after the new transform took its references: h holds it in slot
\* xform with one reference and status FAILED.
cmlcms_color_transform_referenced(h, xform, search_param) ==
    cmlcms_color_transform_extracted(xform, search_param,
        ensure_output_profile_extract(h, search_param.output_profile))

cmlcms_color_transform_create(h, search_param) ==
    cmlcms_color_transform_referenced(
        ref_cprof(
            ref_cprof([h EXCEPT !.xforms[AllocTransform(h)] =
                          ColorTransform(search_param, 1, CMLCMS_TRANSFORM_FAILED,
                                         "IDENTITY")],
                      search_param.input_profile),
            search_param.output_profile),
        AllocTransform(h), search_param)

\* The mutant: the render intent is left out of the comparison.
transform_matches_params_no_intent(xform, param) ==
    /\ xform.search_key.category = param.category
    /\ xform.search_key.output_profile = param.output_profile
    /\ xform.search_key.input_profile = param.input_profile

transform_matches_params(xform, param) ==
    IF xform.search_key.category # param.category THEN FALSE
    ELSE IF \/ xform.search_key.render_intent # param.render_intent
            \/ xform.search_key.output_profile # param.output_profile
            \/ xform.search_key.input_profile # param.input_profile
    THEN FALSE
    ELSE TRUE

\* cmlcms_color_transform_get: a reference to the first transform of the
\* list that matches, or a new transform.
cmlcms_color_transform_found(h, param, found) ==
    IF found # NULL
    THEN [xform |-> found, asserted |-> FALSE,
          h |-> weston_color_transform_ref(h, found)]
    ELSE cmlcms_color_transform_create(h, param)

cmlcms_color_transform_get(h, param) ==
    cmlcms_color_transform_found(h, param,
        FirstMatch(h.color_transform_list,
                   {xform \in TransformSlots :
                       transform_matches_params(h.xforms[xform], param)}))

\* ------------------------- color-lcms.c: cmlcms_get_surface_color_transform

\* cmlcms_get_surface_color_transform, once cmlcms_color_transform_get
\* returned r: surf_xform is written on success only (identity_pipeline is
\* FALSE in the caller's zeroed struct otherwise).
cmlcms_get_surface_color_transform_got(r) ==
    [xform |-> r.xform, asserted |-> r.asserted, h |-> r.h,
     identity_pipeline |->
        IF r.xform = NULL THEN FALSE
        ELSE r.h.xforms[r.xform].search_key.input_profile
                 = r.h.xforms[r.xform].search_key.output_profile]

\* surface and output are the profiles to_cprof_or_stock_sRGB resolved.
cmlcms_get_surface_color_transform(h, surface, output, render_intent) ==
    cmlcms_get_surface_color_transform_got(
        cmlcms_color_transform_get(h,
            SearchParam(CMLCMS_CATEGORY_INPUT_TO_BLEND, surface, output,
                        render_intent)))

\* ------------------------------------------------ color-lcms.c: cmlcms_destroy

\* wl_list_for_each_safe over cm->color_profile_list, destroying each
\* profile whatever its reference count.
RECURSIVE cmlcms_destroy_profiles(_)
cmlcms_destroy_profiles(h) ==
    IF h.color_profile_list = <<>> THEN h
    ELSE cmlcms_destroy_profiles(
             cmlcms_color_profile_destroy(h, Head(h.color_profile_list)))

\* cmlcms_destroy: the colour manager drops its reference to the stock
\* profile; profiles still on the list are logged as a bug and destroyed;
\* then assert() wants both lists empty.  ndebug tells whether assert() is
\* compiled out.  logged is whether the BUG message was written, aborted
\* whether an assertion ended the process, freed whether free(cm) was
\* reached.
cmlcms_destroy(h, ndebug) ==
    LET stock_held == h.cprofs[sRGB_profile].ref_count >= 1
        unreffed   == unref_cprof(h, sRGB_profile)
        logged     == unreffed.color_profile_list # <<>>
        emptied    == cmlcms_destroy_profiles(unreffed)
        list_assert == ~ndebug /\ emptied.color_transform_list # <<>>
    IN  IF ~stock_held
        THEN [h |-> h, logged |-> FALSE, aborted |-> TRUE, freed |-> FALSE]
        ELSE [h |-> emptied, logged |-> logged, aborted |-> list_assert,
              freed |-> ~list_assert]

\* ------------------------------------ color-profile-param-builder.c: builder

\* The groups of enum weston_color_profile_params_set; group_mask is the set
\* of the groups whose bit is set.
WESTON_COLOR_PROFILE_PARAMS_PRIMARIES == "PRIMARIES"

WESTON_COLOR_PROFILE_PARAMS_TF == "TF"

WESTON_COLOR_PROFILE_PARAMS_TARGET_PRIMARIES == "TARGET_PRIMARIES"

WESTON_COLOR_PROFILE_PARAMS_LUMINANCE == "LUMINANCE"

WESTON_COLOR_PROFILE_PARAMS_MAXCLL == "MAXCLL"

WESTON_COLOR_PROFILE_PARAMS_MAXFALL == "MAXFALL"

\* A null pointer to a primaries or transfer function description.
NULL_info == "NULL"

\* A CIE xy point and a gamut; coordinates are in thousandths.
Point(x, y) == [x |-> x, y |-> y]

ColorGamut(r, g, b, w) == [primary |-> <<r, g, b>>, white_point |-> w]

\* The builder after weston_color_profile_param_builder_create: xzalloc'ed,
\* with an empty error stream.  err_msg holds the pieces written to err_fp,
\* in order (the arguments of the format strings are left out); stored is
\* the history of the store_error calls, kept for the properties only;
\* destroyed counts the calls of ..._destroy on the builder.
weston_color_profile_param_builder_create ==
    [params |-> [primaries |-> ColorGamut(Point(0, 0), Point(0, 0), Point(0, 0), Point(0, 0)),
                 primaries_info |-> NULL_info,
                 tf_info |-> NULL_info,
                 tf_params |-> 0,
                 target_primaries |-> ColorGamut(Point(0, 0), Point(0, 0), Point(0, 0), Point(0, 0)),
                 min_luminance |-> 0,
                 max_luminance |-> 0,
                 maxCLL |-> 0,
                 maxFALL |-> 0],
     group_mask |-> {},
     err |-> "0",
     has_errors |-> FALSE,
     err_msg |-> <<>>,
     stored |-> <<>>,
     destroyed |-> 0]

weston_color_profile_param_builder_destroy(builder) ==
    [builder EXCEPT !.destroyed = @ + 1]

store_error(builder, err, msg) ==
    [builder EXCEPT
        !.has_errors = TRUE,
        !.err = IF builder.has_errors THEN @ ELSE err,
        !.err_msg = IF builder.has_errors THEN @ \o <<"\n", msg>> ELSE @ \o <<msg>>,
        !.stored = Append(@, <<err, msg>>)]

\* store_error when cond holds.
StoreErrorIf(cond, builder, err, msg) ==
    IF cond THEN store_error(builder, err, msg) ELSE builder

\* What a setter hands back: its return value and the builder it leaves.
SetterResult(success, failed, set) ==
    [ret |-> success, builder |-> IF success THEN set ELSE failed]

weston_color_profile_param_builder_set_primaries(cm, builder, primaries) ==
    LET unsupported == "SET_PRIMARIES" \notin cm.supported_color_features
        already == WESTON_COLOR_PROFILE_PARAMS_PRIMARIES \in builder.group_mask
        b1 == StoreErrorIf(unsupported, builder, "INVALID_PRIMARIES",
                           "set_primaries not supported by the color manager")
        b2 == StoreErrorIf(already, b1, "ALREADY_SET", "primaries were already set")
    IN  SetterResult(~unsupported /\ ~already, b2,
            [builder EXCEPT
                !.params.primaries = primaries,
                !.group_mask = @ \cup {WESTON_COLOR_PROFILE_PARAMS_PRIMARIES}])

\* weston_color_primaries_info_from(...)->color_gamut, for the names explored.
weston_color_primaries_info_from(primaries) ==
    IF primaries = "CICP_SRGB"
    THEN ColorGamut(Point(640, 330), Point(300, 600), Point(150, 60), Point(313, 329))
    ELSE ColorGamut(Point(640, 330), Point(210, 710), Point(150, 60), Point(313, 329))

weston_color_profile_param_builder_set_primaries_named(cm, builder, primaries) ==
    LET unsupported == primaries \notin cm.supported_primaries_named
        already == WESTON_COLOR_PROFILE_PARAMS_PRIMARIES \in builder.group_mask
        b1 == StoreErrorIf(unsupported, builder, "INVALID_PRIMARIES",
                           "named primaries not supported by the color manager")
        b2 == StoreErrorIf(already, b1, "ALREADY_SET", "primaries were already set")
    IN  SetterResult(~unsupported /\ ~already, b2,
            [builder EXCEPT
                !.params.primaries_info = primaries,
                !.params.primaries = weston_color_primaries_info_from(primaries),
                !.group_mask = @ \cup {WESTON_COLOR_PROFILE_PARAMS_PRIMARIES}])

weston_color_profile_param_builder_set_tf_named(cm, builder, tf) ==
    LET unsupported == tf \notin cm.supported_tf_named
        already == WESTON_COLOR_PROFILE_PARAMS_TF \in builder.group_mask
        b1 == StoreErrorIf(unsupported, builder, "INVALID_TF",
                           "named tf not supported by the color manager")
        b2 == StoreErrorIf(already, b1, "ALREADY_SET", "tf was already set")
    IN  SetterResult(~unsupported /\ ~already, b2,
            [builder EXCEPT
                !.params.tf_info = tf,
                !.group_mask = @ \cup {WESTON_COLOR_PROFILE_PARAMS_TF}])

weston_color_profile_param_builder_set_tf_power_exponent(cm, builder, power_exponent) ==
    LET unsupported == "SET_TF_POWER" \notin cm.supported_color_features
        already == WESTON_COLOR_PROFILE_PARAMS_TF \in builder.group_mask
        out_of_range == ~(power_exponent >= 1 /\ power_exponent <= 10)
        b1 == StoreErrorIf(unsupported, builder, "INVALID_TF",
                           "set_tf_power not supported by the color manager")
        b2 == StoreErrorIf(already, b1, "ALREADY_SET", "tf was already set")
        b3 == StoreErrorIf(out_of_range, b2, "INVALID_TF",
                           "tf power exponent is not in the range [1.0, 10.0]")
    IN  SetterResult(~unsupported /\ ~already /\ ~out_of_range, b3,
            [builder EXCEPT
                !.params.tf_info = "POWER",
                !.params.tf_params = power_exponent,
                !.group_mask = @ \cup {WESTON_COLOR_PROFILE_PARAMS_TF}])

weston_color_profile_param_builder_set_target_primaries(cm, builder, target_primaries) ==
    LET unsupported ==
            "SET_MASTERING_DISPLAY_PRIMARIES" \notin cm.supported_color_features
        already == WESTON_COLOR_PROFILE_PARAMS_TARGET_PRIMARIES \in builder.group_mask
        b1 == StoreErrorIf(unsupported, builder, "INVALID_TARGET_PRIMARIES",
                "set_mastering_display_primaries not supported by the color manager")
        b2 == StoreErrorIf(already, b1, "ALREADY_SET", "target primaries were already set")
    IN  SetterResult(~unsupported /\ ~already, b2,
            [builder EXCEPT
                !.params.target_primaries = target_primaries,
                !.group_mask = @ \cup {WESTON_COLOR_PROFILE_PARAMS_TARGET_PRIMARIES}])

weston_color_profile_param_builder_set_target_luminance(builder, min_luminance, max_luminance) ==
    LET already == WESTON_COLOR_PROFILE_PARAMS_LUMINANCE \in builder.group_mask
        invalid == min_luminance >= max_luminance
        b1 == StoreErrorIf(already, builder, "ALREADY_SET", "target luminance was already set")
        b2 == StoreErrorIf(invalid, b1, "INVALID_LUMINANCE",
                "min luminance shouldn't be greater than or equal to max")
    IN  SetterResult(~already /\ ~invalid, b2,
            [builder EXCEPT
                !.params.min_luminance = min_luminance,
                !.params.max_luminance = max_luminance,
                !.group_mask = @ \cup {WESTON_COLOR_PROFILE_PARAMS_LUMINANCE}])

weston_color_profile_param_builder_set_maxFALL(builder, maxFALL) ==
    LET already == WESTON_COLOR_PROFILE_PARAMS_MAXFALL \in builder.group_mask
    IN  SetterResult(~already,
            store_error(builder, "ALREADY_SET", "max fall was already set"),
            [builder EXCEPT
                !.params.maxFALL = maxFALL,
                !.group_mask = @ \cup {WESTON_COLOR_PROFILE_PARAMS_MAXFALL}])

\* The mutant: the value is stored whether or not maxCLL was set before.
weston_color_profile_param_builder_set_maxCLL_overwriting(builder, maxCLL) ==
    LET already == WESTON_COLOR_PROFILE_PARAMS_MAXCLL \in builder.group_mask
        b1 == StoreErrorIf(already, builder, "ALREADY_SET", "max cll was already set")
    IN  [ret |-> ~already,
         builder |-> [b1 EXCEPT
                !.params.maxCLL = maxCLL,
                !.group_mask = @ \cup {WESTON_COLOR_PROFILE_PARAMS_MAXCLL}]]

weston_color_profile_param_builder_set_maxCLL(builder, maxCLL) ==
    LET already == WESTON_COLOR_PROFILE_PARAMS_MAXCLL \in builder.group_mask
    IN  SetterResult(~already,
            store_error(builder, "ALREADY_SET", "max cll was already set"),
            [builder EXCEPT
                !.params.maxCLL = maxCLL,
                !.group_mask = @ \cup {WESTON_COLOR_PROFILE_PARAMS_MAXCLL}])

\* The two tests of builder_validate_params_set that come before its read of
\* builder->params.tf_info->tf.
builder_validate_mandatory(builder) ==
    LET b1 == StoreErrorIf(WESTON_COLOR_PROFILE_PARAMS_PRIMARIES \notin builder.group_mask,
                           builder, "INCOMPLETE_SET", "primaries not set")
    IN  StoreErrorIf(WESTON_COLOR_PROFILE_PARAMS_TF \notin builder.group_mask,
                     b1, "INCOMPLETE_SET", "transfer function not set")

\* The mutant: maxFALL alone does not ask for the PQ transfer function.
builder_validate_params_set_without_maxFALL(builder, tf) ==
    LET b2 == builder_validate_mandatory(builder)
    IN  StoreErrorIf(
            /\ tf # "ST2084_PQ"
            /\ builder.group_mask \cap {WESTON_COLOR_PROFILE_PARAMS_LUMINANCE,
                                        WESTON_COLOR_PROFILE_PARAMS_MAXCLL} # {},
            b2, "INCONSISTENT_SET",
            "luminance values were given but transfer function is not Rec. ITU-R BT.2100-2 (PQ)")

\* builder_validate_params_set reads builder->params.tf_info->tf whether or
\* not the transfer function was set; tf is what that read gave.
builder_validate_params_set(builder, tf) ==
    LET b2 == builder_validate_mandatory(builder)
    IN  StoreErrorIf(
            /\ tf # "ST2084_PQ"
            /\ builder.group_mask \cap {WESTON_COLOR_PROFILE_PARAMS_LUMINANCE,
                                        WESTON_COLOR_PROFILE_PARAMS_MAXCLL,
                                        WESTON_COLOR_PROFILE_PARAMS_MAXFALL} # {},
            b2, "INCONSISTENT_SET",
            "luminance values were given but transfer function is not Rec. ITU-R BT.2100-2 (PQ)")

\* Twice the area of the triangle, in units of 1e-6.
triangle_area(x1, y1, x2, y2, x3, y3) ==
    Abs((x1 - x3) * (y2 - y1) - (x1 - x2) * (y3 - y1))

\* The mutant: a triangle without area is not turned down.
is_point_inside_triangle_any_area(point_x, point_y, x1, y1, x2, y2, x3, y3) ==
    LET A == triangle_area(x1, y1, x2, y2, x3, y3)
        A1 == triangle_area(point_x, point_y, x1, y1, x2, y2)
        A2 == triangle_area(point_x, point_y, x1, y1, x3, y3)
        A3 == triangle_area(point_x, point_y, x2, y2, x3, y3)
    IN  Abs(A - (A1 + A2 + A3)) <= 20

\* PRECISION is 1e-5: an area A = area2 * 1e-6 / 2 is at most PRECISION
\* when area2 <= 20.
is_point_inside_triangle(point_x, point_y, x1, y1, x2, y2, x3, y3) ==
    LET A == triangle_area(x1, y1, x2, y2, x3, y3)
        A1 == triangle_area(point_x, point_y, x1, y1, x2, y2)
        A2 == triangle_area(point_x, point_y, x1, y1, x3, y3)
        A3 == triangle_area(point_x, point_y, x2, y2, x3, y3)
    IN  IF A <= 20 THEN FALSE
        ELSE Abs(A - (A1 + A2 + A3)) <= 20

validate_color_gamut(builder, gamut, gamut_name) ==
    LET points == <<gamut.white_point, gamut.primary[1], gamut.primary[2], gamut.primary[3]>>
    IN  IF \E i \in 1..4 : \/ points[i].x < -1000 \/ points[i].x > 2000
                           \/ points[i].y < -1000 \/ points[i].y > 2000
        THEN store_error(builder, "CIE_XY_OUT_OF_RANGE", "invalid " \o gamut_name)
        ELSE StoreErrorIf(
                ~is_point_inside_triangle(gamut.white_point.x, gamut.white_point.y,
                                          gamut.primary[1].x, gamut.primary[1].y,
                                          gamut.primary[2].x, gamut.primary[2].y,
                                          gamut.primary[3].x, gamut.primary[3].y),
                builder, "CIE_XY_OUT_OF_RANGE",
                "white point out of " \o gamut_name \o " volume")

validate_maxcll(builder) ==
    IF WESTON_COLOR_PROFILE_PARAMS_LUMINANCE \notin builder.group_mask
    THEN builder
    ELSE LET b1 == StoreErrorIf(builder.params.min_luminance >= builder.params.maxCLL,
                        builder, "INCONSISTENT_LUMINANCES",
                        "maxCLL should be greater or equal to min luminance")
         IN  StoreErrorIf(builder.params.max_luminance < builder.params.maxCLL,
                        b1, "INCONSISTENT_LUMINANCES",
                        "maxCLL should not be greater than max luminance")

validate_maxfall(builder) ==
    IF WESTON_COLOR_PROFILE_PARAMS_LUMINANCE \notin builder.group_mask
    THEN builder
    ELSE LET b1 == StoreErrorIf(builder.params.min_luminance >= builder.params.maxFALL,
                        builder, "INCONSISTENT_LUMINANCES",
                        "maxFALL should be greater or equal to min luminance")
         IN  StoreErrorIf(builder.params.max_luminance < builder.params.maxFALL,
                        b1, "INCONSISTENT_LUMINANCES",
                        "maxFALL should not be greater than max luminance")

builder_validate_params(builder) ==
    LET b1 == IF WESTON_COLOR_PROFILE_PARAMS_PRIMARIES \in builder.group_mask
              THEN validate_color_gamut(builder, builder.params.primaries, "primaries")
              ELSE builder
        b2 == IF WESTON_COLOR_PROFILE_PARAMS_TARGET_PRIMARIES \in builder.group_mask
              THEN validate_color_gamut(b1, b1.params.target_primaries, "target primaries")
              ELSE b1
        b3 == IF WESTON_COLOR_PROFILE_PARAMS_MAXCLL \in builder.group_mask
              THEN validate_maxcll(b2)
              ELSE b2
    IN  IF WESTON_COLOR_PROFILE_PARAMS_MAXFALL \in builder.group_mask
        THEN validate_maxfall(b3)
        ELSE b3

builder_complete_params(builder) ==
    [builder EXCEPT
        !.params.target_primaries =
            IF WESTON_COLOR_PROFILE_PARAMS_TARGET_PRIMARIES \notin builder.group_mask
            THEN builder.params.primaries ELSE @,
        !.params.min_luminance =
            IF WESTON_COLOR_PROFILE_PARAMS_LUMINANCE \notin builder.group_mask
            THEN -1 ELSE @,
        !.params.max_luminance =
            IF WESTON_COLOR_PROFILE_PARAMS_LUMINANCE \notin builder.group_mask
            THEN -1 ELSE @,
        !.params.maxCLL =
            IF WESTON_COLOR_PROFILE_PARAMS_MAXCLL \notin builder.group_mask
            THEN -1 ELSE @,
        !.params.maxFALL =
            IF WESTON_COLOR_PROFILE_PARAMS_MAXFALL \notin builder.group_mask
            THEN -1 ELSE @]

\* An output argument the call left untouched.
Untouched == "untouched"

\* What weston_color_profile_param_builder_create_color_profile hands back
\* and the builder it leaves.  tf_read is the outcome of the read of
\* builder->params.tf_info->tf in builder_validate_params_set: the transfer
\* function, or, when tf_info is a null pointer, whatever that read does:
\* "crash" ends the caller there, with the builder not destroyed.  cm_ret is
\* what cm->get_color_profile_from_params returns.
weston_color_profile_param_builder_create_color_profile(builder, tf_read, cm_ret) ==
    LET completed == builder_complete_params(builder)
        set_checked == builder_validate_params_set(completed, tf_read)
        checked == builder_validate_params(set_checked)
    IN  IF tf_read = "crash"
        THEN [crashed |-> TRUE, cprof |-> NULL_info, err |-> Untouched,
              err_msg |-> <<Untouched>>,
              builder |-> builder_validate_mandatory(completed)]
        ELSE IF checked.has_errors
        THEN [crashed |-> FALSE, cprof |-> NULL_info, err |-> checked.err,
              err_msg |-> checked.err_msg,
              builder |-> weston_color_profile_param_builder_destroy(checked)]
        ELSE [crashed |-> FALSE,
              cprof |-> IF cm_ret THEN "cprof" ELSE NULL_info,
              err |-> IF cm_ret THEN Untouched ELSE "UNSUPPORTED",
              err_msg |-> IF cm_ret THEN <<Untouched>>
                          ELSE <<"get_color_profile_from_params failed">>,
              builder |-> weston_color_profile_param_builder_destroy(checked)]

\* ------------------------------------------------------ id-number-allocator.c

\* Each bucket holds 32 ids: a bucket is the set of its bits that are 1.
BucketBits == 32
FullBucket == 0..(BucketBits - 1)

\* weston_idalloc_create: two zeroed buckets, id 0 taken.  buckets is
\* indexed from 0, as in the code.
weston_idalloc_create ==
    [buckets |-> [b \in 0..1 |-> IF b = 0 THEN {0} ELSE {}],
     num_buckets |-> 2,
     lowest_free_bucket |-> 0]

\* What the buckets added by xrealloc can hold: the memory is not
\* initialized.  All bits clear, all bits set, and a pattern in between.
UninitializedBuckets == {{}, FullBucket, {0, 1}}

\* update_lowest_free_bucket: the first bucket from the old lowest one on
\* that is not full; when there is none, the allocator doubles its buckets
\* and the first new bucket is the lowest free one.  fresh gives the
\* contents of the new buckets.
update_lowest_free_bucket(a, fresh) ==
    LET free == {i \in a.lowest_free_bucket..(a.num_buckets - 1) :
                    a.buckets[i] # FullBucket}
    IN  IF free # {}
        THEN [a EXCEPT !.lowest_free_bucket =
                           CHOOSE i \in free : \A j \in free : i <= j]
        ELSE [buckets |-> [b \in 0..(2 * a.num_buckets - 1) |->
                              IF b < a.num_buckets THEN a.buckets[b] ELSE fresh[b]],
              num_buckets |-> 2 * a.num_buckets,
              lowest_free_bucket |-> a.num_buckets]

\* The mutant: the id found is not marked as taken.
weston_idalloc_get_id_unmarked(a, fresh) ==
    LET bucket == a.buckets[a.lowest_free_bucket]
        i == CHOOSE k \in FullBucket \ bucket : \A m \in FullBucket \ bucket : k <= m
    IN  IF bucket = FullBucket
        THEN [asserted |-> TRUE, id |-> 0, idalloc |-> a]
        ELSE [asserted |-> FALSE,
              id |-> BucketBits * a.lowest_free_bucket + i,
              idalloc |-> a]

\* weston_idalloc_get_id: the lowest clear bit of the lowest free bucket is
\* set and its id returned; an assertion fails when that bucket is full.
weston_idalloc_get_id(a, fresh) ==
    LET bucket == a.buckets[a.lowest_free_bucket]
        i == CHOOSE k \in FullBucket \ bucket : \A m \in FullBucket \ bucket : k <= m
        taken == [a EXCEPT !.buckets[a.lowest_free_bucket] = bucket \cup {i}]
    IN  IF bucket = FullBucket
        THEN [asserted |-> TRUE, id |-> 0, idalloc |-> a]
        ELSE [asserted |-> FALSE,
              id |-> BucketBits * a.lowest_free_bucket + i,
              idalloc |-> IF bucket \cup {i} = FullBucket
                          THEN update_lowest_free_bucket(taken, fresh)
                          ELSE taken]

\* weston_idalloc_put_id: assertions against id 0, an id beyond the
\* buckets and an id that is free; the id's bucket becomes the lowest free
\* one when it is lower, and the bit is cleared.
weston_idalloc_put_id(a, id) ==
    LET bucket_index == id \div BucketBits
        id_index_on_bucket == id % BucketBits
    IN  IF \/ id = 0
           \/ ~(bucket_index < a.num_buckets)
           \/ id_index_on_bucket \notin a.buckets[bucket_index]
        THEN [asserted |-> TRUE, idalloc |-> a]
        ELSE [asserted |-> FALSE,
              idalloc |-> [a EXCEPT
                  !.lowest_free_bucket =
                      IF bucket_index < @ THEN bucket_index ELSE @,
                  !.buckets[bucket_index] = @ \ {id_index_on_bucket}]]

\* --------------------------------------------- color-lcms.c: cmlcms_get_hdr_meta

\* A float: NaN, an infinity (<<"inf", 1>> or <<"inf", -1>>) or a number, in
\* units of 0.0001.
NaN == <<"nan", 0>>
Infinity(sign) == <<"inf", sign>>
Float(v) == <<"num", v>>

\* a <= b on floats: false when either is NaN.
FloatLE(a, b) ==
    /\ a[1] # "nan"
    /\ b[1] # "nan"
    /\ IF a[1] = "inf" THEN a[2] = -1 \/ (b[1] = "inf" /\ b[2] = 1)
       ELSE IF b[1] = "inf" THEN b[2] = 1
       ELSE a[2] <= b[2]

FloatGE(a, b) == FloatLE(b, a)

\* The mutant: the comparisons are written the plain way, value < min and
\* value > max, which NaN passes.
meta_clamp_comparing(value, min, max) ==
    LET low == IF FloatLE(value, min) /\ value # min THEN min ELSE value
    IN  IF FloatGE(low, max) /\ low # max THEN max ELSE low

\* meta_clamp: !(ret >= min) and !(ret <= max) are true of NaN too.
meta_clamp(value, min, max) ==
    LET low == IF ~FloatGE(value, min) THEN min ELSE value
    IN  IF ~FloatLE(low, max) THEN max ELSE low

\* struct weston_CIExy.
CIExy(x, y) == [x |-> x, y |-> y]

\* struct weston_color_characteristics; group_mask is the set of the groups
\* whose bit is set.
ColorCharacteristics(group_mask, primary, white, max_luminance, min_luminance,
                     maxFALL) ==
    [group_mask |-> group_mask, primary |-> primary, white |-> white,
     max_luminance |-> max_luminance, min_luminance |-> min_luminance,
     maxFALL |-> maxFALL]

\* The struct weston_hdr_metadata_type1 the caller hands in: zeroed.
ZeroHdrMeta ==
    [group_mask |-> {},
     primary |-> [i \in 1..3 |-> CIExy(Float(0), Float(0))],
     white |-> CIExy(Float(0), Float(0)),
     maxDML |-> Float(0), minDML |-> Float(0), maxCLL |-> Float(0),
     maxFALL |-> Float(0)]

\* The clamped chromaticity.
meta_clamp_xy(xy) ==
    CIExy(meta_clamp(xy.x, Float(0), Float(10000)),
          meta_clamp(xy.y, Float(0), Float(10000)))

\* cmlcms_get_hdr_meta: nothing is flagged unless the output is in ST 2084
\* mode; then every group of the colour characteristics is clamped into
\* the metadata and flagged.  It returns true.
cmlcms_get_hdr_meta(out, meta) ==
    LET cc == out.cc
        has(group) == group \in cc.group_mask
    IN  IF out.eotf_mode # "ST2084"
        THEN [ret |-> TRUE, hdr_meta |-> [meta EXCEPT !.group_mask = {}]]
        ELSE [ret |-> TRUE,
              hdr_meta |->
                [group_mask |->
                     (IF has("PRIMARIES") THEN {"PRIMARIES"} ELSE {})
                       \cup (IF has("WHITE") THEN {"WHITE"} ELSE {})
                       \cup (IF has("MAXL") THEN {"MAXDML", "MAXCLL"} ELSE {})
                       \cup (IF has("MINL") THEN {"MINDML"} ELSE {})
                       \cup (IF has("MAXFALL") THEN {"MAXFALL"} ELSE {}),
                 primary |-> IF has("PRIMARIES")
                             THEN [i \in 1..3 |-> meta_clamp_xy(cc.primary[i])]
                             ELSE meta.primary,
                 white |-> IF has("WHITE") THEN meta_clamp_xy(cc.white)
                           ELSE meta.white,
                 maxDML |-> IF has("MAXL")
                            THEN meta_clamp(cc.max_luminance, Float(10000),
                                            Float(655350000))
                            ELSE meta.maxDML,
                 maxCLL |-> IF has("MAXL")
                            THEN meta_clamp(cc.max_luminance, Float(10000),
                                            Float(655350000))
                            ELSE meta.maxCLL,
                 minDML |-> IF has("MINL")
                            THEN meta_clamp(cc.min_luminance, Float(1), Float(65535))
                            ELSE meta.minDML,
                 maxFALL |-> IF has("MAXFALL")
                             THEN meta_clamp(cc.maxFALL, Float(10000),
                                             Float(655350000))
                             ELSE meta.maxFALL]]

\* ------------------------------------------------------ color-management.c

\* The ICC size ceiling of cm_creator_icc_set_icc_file, in bytes:
\* 4 * 1024 * 1024.
MaxIccSize == 4194304

\* The size of every file a client hands in.
IccFileSize == 128

\* A file behind a descriptor the client passes: its access mode, whether
\* lseek works on it, whether pread fails on it, and the profile it holds.
File(flags, seekable, readable, icc) ==
    [flags |-> flags, seekable |-> seekable, readable |-> readable, icc |-> icc]

ClientFiles ==
    {File("O_RDONLY", TRUE, TRUE, IccData(4, 3, "Display", 0, "A")),
     File("O_RDWR", TRUE, TRUE, StockIccData),
     File("O_RDONLY", TRUE, TRUE, IccData(4, 3, "Input", 0, "A")),
     File("O_WRONLY", TRUE, TRUE, IccData(4, 3, "Display", 0, "A")),
     File("O_RDONLY", FALSE, TRUE, IccData(4, 3, "Display", 0, "A")),
     File("O_RDONLY", TRUE, FALSE, NoIccData)}

\* The bytes pread returns for a part of a file: the profile when it is the
\* whole file, bytes LittleCMS cannot open otherwise.
NotUnderstood == IccData(0, 0, "", 0, "not understood")

FileData(file, offset, length) ==
    IF offset = 0 /\ length = IccFileSize THEN file.icc ELSE NotUnderstood

\* enum supports_get_info.
NO_GET_INFO == FALSE
YES_GET_INFO == TRUE

\* struct cm_creator_icc behind its resource; owner tells whether the
\* resource exists.
NoCreator ==
    [owner |-> FALSE, icc_profile_fd |-> -1, icc_data_length |-> 0,
     icc_data_offset |-> 0]

\* An image description resource: owner tells whether the resource exists,
\* user_data whether its user data points to a struct cm_image_desc,
\* allocated whether that struct is allocated; cprof and supports_get_info
\* are the struct's fields; from_icc records that cm_creator_icc_create made
\* the image description and sent ready.
NoImageDesc ==
    [owner |-> FALSE, user_data |-> FALSE, allocated |-> FALSE, cprof |-> NULL,
     supports_get_info |-> NO_GET_INFO, from_icc |-> FALSE]

ImageDescSlots == 1..2

\* A request and what it did: the image description it is about, the
\* descriptor, offset and length of a set_icc_file, the protocol error it
\* posted and the events it sent.
Request(op, desc) ==
    [op |-> op, desc |-> desc, fd |-> -1, offset |-> 0, length |-> 0,
     error |-> "", events |-> <<>>]

\* A client that has bound the colour manager global and sent nothing.
\* off_t_bits is the width of off_t in the build; error is the protocol
\* error the client was sent, after which it is served no more; fds are the
\* descriptors received, with the number of times each was closed.
IdleClient(off_t_bits) ==
    [off_t_bits |-> off_t_bits,
     connected |-> TRUE,
     error |-> "",
     requests |-> 0,
     cm_creator_icc |-> NoCreator,
     image_descs |-> [d \in ImageDescSlots |-> NoImageDesc],
     fds |-> <<>>,
     last |-> Request("", 0)]

\* The colour manager's objects and a client's.
Server(h, c) == [h |-> h, c |-> c]

\* wl_resource_post_error and wl_resource_post_no_memory (libwayland): the
\* client is in error from the first one on.
wl_resource_post_error(c, code) ==
    [c EXCEPT !.error = IF @ = "" THEN code ELSE @,
              !.last.error = IF @ = "" THEN code ELSE @]

wl_resource_post_no_memory(c) == wl_resource_post_error(c, "NO_MEMORY")

send_event(c, event) == [c EXCEPT !.last.events = Append(@, event)]

close(c, fd) == [c EXCEPT !.fds[fd].closes = @ + 1]

\* The mutant: the size is checked after the descriptor has been stored.
cm_creator_icc_set_icc_file_storing_first(c, icc_profile_fd, offset, length) ==
    LET file == c.fds[icc_profile_fd].file
        err_code ==
            IF c.cm_creator_icc.icc_data_length > 0 THEN "ALREADY_SET"
            ELSE IF length = 0 \/ length > MaxIccSize THEN "BAD_SIZE"
            ELSE IF file.flags = "O_WRONLY" THEN "BAD_FD"
            ELSE IF ~file.seekable THEN "BAD_FD"
            ELSE ""
        stored == [c EXCEPT !.cm_creator_icc.icc_profile_fd = icc_profile_fd,
                            !.cm_creator_icc.icc_data_length = length,
                            !.cm_creator_icc.icc_data_offset = offset]
    IN  IF err_code = "ALREADY_SET"
        THEN wl_resource_post_error(close(c, icc_profile_fd), err_code)
        ELSE IF err_code # ""
        THEN wl_resource_post_error(close(stored, icc_profile_fd), err_code)
        ELSE stored

\* cm_creator_icc_set_icc_file: already set, bad size, descriptor not
\* readable, descriptor not seekable, in this order; on an error the
\* descriptor is closed and nothing is stored.
cm_creator_icc_set_icc_file(c, icc_profile_fd, offset, length) ==
    LET file == c.fds[icc_profile_fd].file
        err_code ==
            IF c.cm_creator_icc.icc_data_length > 0 THEN "ALREADY_SET"
            ELSE IF length = 0 \/ length > MaxIccSize THEN "BAD_SIZE"
            ELSE IF file.flags = "O_WRONLY" THEN "BAD_FD"
            ELSE IF ~file.seekable THEN "BAD_FD"
            ELSE ""
    IN  IF err_code # ""
        THEN wl_resource_post_error(close(c, icc_profile_fd), err_code)
        ELSE [c EXCEPT !.cm_creator_icc.icc_profile_fd = icc_profile_fd,
                       !.cm_creator_icc.icc_data_length = length,
                       !.cm_creator_icc.icc_data_offset = offset]

\* do_length_and_offset_fit, for offsets below 2^31: the sum always fits
\* size_t, and fits off_t unless off_t has 32 bits and the sum reaches 2^31.
do_length_and_offset_fit(cm_creator_icc, off_t_bits) ==
    \/ off_t_bits = 64
    \/ cm_creator_icc.icc_data_length <= 2147483647 - cm_creator_icc.icc_data_offset

\* The mutant: the image description takes no reference on the profile.
cm_image_desc_create_borrowing(s, cprof, image_description_id, supports_get_info, created) ==
    IF ~created
    THEN [s |-> s, cm_image_desc |-> NULL]
    ELSE [s |-> [s EXCEPT !.c.image_descs[image_description_id] =
                              [NoImageDesc EXCEPT !.owner = TRUE, !.user_data = TRUE,
                                  !.allocated = TRUE, !.cprof = cprof,
                                  !.supports_get_info = supports_get_info]],
          cm_image_desc |-> image_description_id]

\* cm_image_desc_create: the resource and its backing object, which takes
\* a reference on cprof when there is one; NULL when wl_resource_create
\* fails (created is false).
cm_image_desc_create(s, cprof, image_description_id, supports_get_info, created) ==
    IF ~created
    THEN [s |-> s, cm_image_desc |-> NULL]
    ELSE [s |-> [s EXCEPT !.c.image_descs[image_description_id] =
                              [NoImageDesc EXCEPT !.owner = TRUE, !.user_data = TRUE,
                                  !.allocated = TRUE, !.cprof = cprof,
                                  !.supports_get_info = supports_get_info],
                          !.h = ref_cprof(s.h, cprof)],
          cm_image_desc |-> image_description_id]

\* cm_image_desc_destroy: the profile reference is released and the
\* backing object freed.  The resource stays.
cm_image_desc_destroy(s, cm_image_desc) ==
    [s EXCEPT !.h = unref_cprof(s.h, s.c.image_descs[cm_image_desc].cprof),
              !.c.image_descs[cm_image_desc].allocated = FALSE,
              !.c.image_descs[cm_image_desc].cprof = NULL,
              !.c.image_descs[cm_image_desc].supports_get_info = NO_GET_INFO]

\* image_description_resource_destroy, with the resource going away.
image_description_resource_destroy(s, d) ==
    LET destroyed == IF s.c.image_descs[d].user_data
                     THEN cm_image_desc_destroy(s, d)
                     ELSE s
    IN  [destroyed EXCEPT !.c.image_descs[d] = NoImageDesc]

\* cm_creator_icc_destructor, with the resource going away.
cm_creator_icc_destructor(c) ==
    LET closed == IF c.cm_creator_icc.icc_profile_fd >= 0
                  THEN close(c, c.cm_creator_icc.icc_profile_fd)
                  ELSE c
    IN  [closed EXCEPT !.cm_creator_icc = NoCreator]

\* cm->get_color_profile_from_icc on the bytes read.
get_color_profile_from_icc(h, icc_data) ==
    IF icc_data = NotUnderstood
    THEN [ok |-> FALSE, errmsg |-> "ICC data not understood.", cprof_out |-> NULL,
          h |-> h]
    ELSE cmlcms_get_color_profile_from_icc(h, icc_data)

\* create_image_description_color_profile_from_icc_creator: 0 with the
\* profile attached and ready sent, or -1 with a failed event or a protocol
\* error.  oom tells whether zalloc fails.
create_image_description_color_profile_from_icc_creator(s, cm_image_desc, oom) ==
    LET cm_creator_icc == s.c.cm_creator_icc
        file == s.c.fds[cm_creator_icc.icc_profile_fd].file
        r == get_color_profile_from_icc(
                 s.h, FileData(file, cm_creator_icc.icc_data_offset,
                               cm_creator_icc.icc_data_length))
    IN  IF ~do_length_and_offset_fit(cm_creator_icc, s.c.off_t_bits)
        THEN [ret |-> -1,
              s |-> [s EXCEPT !.c = send_event(@, "failed: OPERATING_SYSTEM")]]
        ELSE IF oom
        THEN [ret |-> -1, s |-> [s EXCEPT !.c = wl_resource_post_no_memory(@)]]
        ELSE IF ~file.readable
        THEN [ret |-> -1,
              s |-> [s EXCEPT !.c = send_event(@, "failed: OPERATING_SYSTEM")]]
        ELSE IF cm_creator_icc.icc_data_length
                    > IccFileSize - cm_creator_icc.icc_data_offset
        THEN [ret |-> -1,
              s |-> [s EXCEPT !.c = wl_resource_post_error(@, "OUT_OF_FILE")]]
        ELSE IF ~r.ok
        THEN [ret |-> -1,
              s |-> [s EXCEPT !.c = send_event(@, "failed: UNSUPPORTED")]]
        ELSE [ret |-> 0,
              s |-> [s EXCEPT !.h = r.h,
                              !.c = send_event(@, "ready"),
                              !.c.image_descs[cm_image_desc].cprof = r.cprof_out]]

\* cm_creator_icc_create.  created tells whether wl_resource_create
\* succeeds, oom whether zalloc fails.
cm_creator_icc_create(s, image_description_id, created, oom) ==
    LET a == cm_image_desc_create(s, NULL, image_description_id, NO_GET_INFO, created)
        b == create_image_description_color_profile_from_icc_creator(
                 a.s, a.cm_image_desc, oom)
        done == IF b.ret < 0
                THEN cm_image_desc_destroy(
                         [b.s EXCEPT !.c.image_descs[a.cm_image_desc].user_data = FALSE],
                         a.cm_image_desc)
                ELSE b.s
    IN  IF s.c.cm_creator_icc.icc_data_length = 0
        THEN [s EXCEPT !.c = wl_resource_post_error(@, "INCOMPLETE_SET")]
        ELSE IF a.cm_image_desc = NULL
        THEN [s EXCEPT !.c = wl_resource_post_no_memory(@)]
        ELSE [done EXCEPT !.c = cm_creator_icc_destructor(@),
                          !.c.image_descs[image_description_id].from_icc = (b.ret = 0)]

\* cmlcms_send_image_desc_info (color-profile.c): the ICC file of an ICC
\* profile, the named primaries, the primaries and the named transfer
\* function of the stock profile.
cmlcms_send_image_desc_info(h, c, cprof) ==
    IF h.cprofs[cprof].type = CMLCMS_PROFILE_TYPE_ICC /\ cprof # sRGB_profile
    THEN send_event(c, "icc_file")
    ELSE send_event(send_event(send_event(c, "primaries_named"), "primaries"),
                    "tf_named")

\* The mutant: whether the image description supports the request is not
\* looked at.
image_description_get_information_always(s, d, created) ==
    LET cm_image_desc == s.c.image_descs[d]
    IN  IF ~cm_image_desc.user_data
        THEN [s EXCEPT !.c = wl_resource_post_error(@, "NOT_READY")]
        ELSE IF cm_image_desc.cprof = NULL
        THEN [s EXCEPT !.c = wl_resource_post_error(@, "NOT_READY")]
        ELSE IF ~created
        THEN [s EXCEPT !.c = wl_resource_post_no_memory(@)]
        ELSE [s EXCEPT !.c = send_event(
                  cmlcms_send_image_desc_info(s.h, @, cm_image_desc.cprof), "done")]

\* image_description_get_information.  created tells whether the info
\* resource can be created.
image_description_get_information(s, d, created) ==
    LET cm_image_desc == s.c.image_descs[d]
    IN  IF ~cm_image_desc.user_data
        THEN [s EXCEPT !.c = wl_resource_post_error(@, "NOT_READY")]
        ELSE IF cm_image_desc.cprof = NULL
        THEN [s EXCEPT !.c = wl_resource_post_error(@, "NOT_READY")]
        ELSE IF ~cm_image_desc.supports_get_info
        THEN [s EXCEPT !.c = wl_resource_post_error(@, "NO_INFORMATION")]
        ELSE IF ~created
        THEN [s EXCEPT !.c = wl_resource_post_no_memory(@)]
        ELSE [s EXCEPT !.c = send_event(
                  cmlcms_send_image_desc_info(s.h, @, cm_image_desc.cprof), "done")]

\* cm_output_get_image_description; head tells whether the wl_output
\* global still exists, output_profile is output->color_profile.
cm_output_get_image_description(s, image_description_id, head, output_profile, created) ==
    LET a == cm_image_desc_create(s, output_profile, image_description_id,
                                  YES_GET_INFO, created)
    IN  IF ~created
        THEN [s EXCEPT !.c = wl_resource_post_no_memory(@)]
        ELSE IF ~head
        THEN [s EXCEPT !.c = send_event(@, "failed: NO_OUTPUT"),
                       !.c.image_descs[image_description_id] =
                           [NoImageDesc EXCEPT !.owner = TRUE]]
        ELSE [a.s EXCEPT !.c = send_event(@, "ready")]

\* cm_new_image_description_creator_icc, the colour manager supporting
\* WESTON_COLOR_FEATURE_ICC.
cm_new_image_description_creator_icc(c, created) ==
    IF ~created
    THEN wl_resource_post_no_memory(c)
    ELSE [c EXCEPT !.cm_creator_icc = [NoCreator EXCEPT !.owner = TRUE]]

\* The client goes away (libwayland): every resource it has is destroyed,
\* the destructors of this file being called.
RECURSIVE destroy_image_descs(_, _)
destroy_image_descs(s, d) ==
    IF d \notin ImageDescSlots THEN s
    ELSE destroy_image_descs(
             IF s.c.image_descs[d].owner
             THEN image_description_resource_destroy(s, d)
             ELSE s,
             d + 1)

wl_client_destroy(s) ==
    LET creators == IF s.c.cm_creator_icc.owner
                    THEN [s EXCEPT !.c = cm_creator_icc_destructor(@)]
                    ELSE s
    IN  [destroy_image_descs(creators, 1) EXCEPT !.c.connected = FALSE]

\* ----------------------------------- color-profile.c: the stock profile made

\* What cmlcms_init left behind: whether it ran and succeeded ("" before it
\* runs), cm->sRGB_profile, and how many times the stock profile's
\* description was freed and its LittleCMS handle closed.
Stock(init, cm_sRGB_profile, description_frees, profile_closes) ==
    [init |-> init, sRGB_profile |-> cm_sRGB_profile,
     description_frees |-> description_frees, profile_closes |-> profile_closes]

NoStock == Stock("", NULL, 0, 0)

StockCreated == Stock("ok", sRGB_profile, 0, 0)

\* The calls of cmlcms_create_stock_profile that can fail, in order; "" is
\* none of them failing.
StockFailures ==
    <<"cmsCreate_sRGBProfileTHR", "cmsMD5computeID", "make_icc_file_description",
      "cmlcms_color_profile_create", "ensure_output_profile_extract", "">>

\* The heap with the stock profile object made by cmlcms_color_profile_create
\* and linked; extract tells whether ensure_output_profile_extract succeeded.
StockHeap(h, extract) ==
    [h EXCEPT !.cprofs[sRGB_profile] =
                  ColorProfile(CMLCMS_PROFILE_TYPE_ICC, StockIccData,
                               cmsMD5computeID(StockIccData), <<>>, 1, extract),
              !.color_profile_list = wl_list_insert(@, sRGB_profile)]

\* cmlcms_create_stock_profile, the call named by failing failing.  At
\* err_close the description is freed and the handle closed, whether or
\* not a profile object holds them.
cmlcms_create_stock_profile(h, failing) ==
    IF failing = ""
    THEN [ok |-> TRUE, h |-> StockHeap(h, TRUE), stock |-> StockCreated]
    ELSE IF failing = "cmsCreate_sRGBProfileTHR"
    THEN [ok |-> FALSE, h |-> h, stock |-> Stock("failed", NULL, 0, 0)]
    ELSE IF failing \in {"cmsMD5computeID", "make_icc_file_description"}
    THEN [ok |-> FALSE, h |-> h, stock |-> Stock("failed", NULL, 0, 1)]
    ELSE IF failing = "cmlcms_color_profile_create"
    THEN [ok |-> FALSE, h |-> h, stock |-> Stock("failed", NULL, 1, 1)]
    ELSE [ok |-> FALSE, h |-> StockHeap(h, FALSE),
          stock |-> Stock("failed", sRGB_profile, 1, 1)]

\* cmlcms_destroy on a colour manager whose cmlcms_init may have failed:
\* the stock profile is unreferenced only when cm->sRGB_profile is set.
\* cmlcms_color_profile_destroy closes the handle of the stock profile and
\* frees its description.
cmlcms_destroy_stock(h, stock, ndebug) ==
    LET r == IF stock.sRGB_profile = NULL
             THEN [h |-> cmlcms_destroy_profiles(h),
                   logged |-> h.color_profile_list # <<>>,
                   aborted |-> ~ndebug /\ h.color_transform_list # <<>>,
                   freed |-> ndebug \/ h.color_transform_list = <<>>]
             ELSE cmlcms_destroy(h, ndebug)
        destroyed == h.cprofs[sRGB_profile].alive /\ ~r.h.cprofs[sRGB_profile].alive
    IN  [r |-> r,
         stock |-> IF destroyed
                   THEN [stock EXCEPT !.description_frees = @ + 1,
                                      !.profile_closes = @ + 1]
                   ELSE stock]

\* ---------------------------------------------------- backend-android/android.c

\* struct android_backend and what hangs off it.  b, formats, seat and
\* touch_device tell what has been allocated or initialized and what has
\* been freed or released since; linked is whether b is on the
\* compositor's backend list; heads are the heads of the compositor,
\* outputs the outputs by name; freed_accesses counts the reads and writes
\* of *b made after free(b), crashed whether one of them ended the process.
NoBackend ==
    [b |-> "", formats |-> "", seat |-> "", touch_device |-> "",
     linked |-> FALSE, heads |-> {}, outputs |-> <<>>,
     freed_accesses |-> 0, crashed |-> FALSE]

\* The calls of weston_backend_init that can fail, in order; "" is none.
BackendFailures ==
    <<"zalloc", "renderer", "weston_plugin_api_register", "android_input_create", "">>

\* weston_backend_init: android_backend_create and android_input_create.
\* Every failure frees b; android_input_create releases the seat it
\* initialized.
weston_backend_init(a, failing) ==
    IF failing = "zalloc" THEN a
    ELSE IF failing \in {"renderer", "weston_plugin_api_register"}
    THEN [a EXCEPT !.b = "freed", !.formats = "allocated"]
    ELSE IF failing = "android_input_create"
    THEN [a EXCEPT !.b = "freed", !.formats = "allocated", !.seat = "released"]
    ELSE [a EXCEPT !.b = "allocated", !.formats = "allocated", !.linked = TRUE,
                   !.seat = "initialized", !.touch_device = "created"]

\* android_head_create.
android_head_create(a, name) == [a EXCEPT !.heads = @ \cup {name}]

\* android_output_create, android_output_enable, android_output_disable
\* and android_output_destroy: an output is pending, enabled or gone.
android_output_create(a, name) == [a EXCEPT !.outputs = Append(@, "pending")]

android_output_enable(a, output) == [a EXCEPT !.outputs[output] = "enabled"]

android_output_disable(a, output) ==
    IF a.outputs[output] # "enabled" THEN a
    ELSE [a EXCEPT !.outputs[output] = "pending"]

android_output_destroy(a, output) ==
    [android_output_disable(a, output) EXCEPT !.outputs[output] = "destroyed"]

\* android_input_destroy(b) on a backend that may have been freed: it
\* reads b->android_touch_device and passes &b->android_seat.  intact tells
\* whether the freed memory still holds what it held.
android_input_destroy(a, intact) ==
    LET accesses == IF a.b = "freed" THEN 2 ELSE 0
    IN  IF a.b = "freed" /\ ~intact
        THEN [a EXCEPT !.freed_accesses = @ + accesses, !.crashed = TRUE]
        ELSE [a EXCEPT !.freed_accesses = @ + accesses,
                       !.touch_device = "destroyed",
                       !.seat = "released"]

\* android_destroy: unlink, android_head_destroy on every head, free the
\* formats, free b, then android_input_destroy(b).
android_destroy(a, intact) ==
    android_input_destroy(
        [a EXCEPT !.linked = FALSE, !.heads = {}, !.formats = "freed", !.b = "freed"],
        intact)

\* ------------------------------------------------------------------- state

VARIABLES
    lut,        \* the pipeline (*lut of transform_factory)
    lut_in,     \* the pipeline handed in, before any operation
    opt_op,     \* the operations applied to it so far, in order
    opt_res,    \* what the last operation returned
    xform_base, \* the transform steps written by optimize_float_pipeline
    translated, \* what the last translate_* call returned
    cprofs,                \* the profile objects, by slot
    color_profile_list,    \* cm->color_profile_list
    xforms,                \* the transform objects, by slot
    color_transform_list,  \* cm->color_transform_list
    calls,                 \* the number of calls made so far
    ret,                   \* the last call, its argument and what it returned
    asserted,              \* whether an assertion has failed
    builder,               \* the struct weston_color_profile_param_builder
    color_manager,         \* what builder->compositor->color_manager supports
    builder_ret,           \* what the last call on the builder returned
    idalloc,               \* the struct weston_idalloc
    ids,                   \* the ids handed out and not put back
    id_ret,                \* what the last call on the allocator returned
    hdr_output,            \* the struct weston_output of cmlcms_get_hdr_meta
    hdr_meta,              \* the struct weston_hdr_metadata_type1 it writes
    hdr_ret,               \* what cmlcms_get_hdr_meta returned
    client,                \* a client of the colour management protocol
    stock,                 \* what cmlcms_init did about the stock profile
    android                \* the struct android_backend

optVars == <<lut, lut_in, opt_op, opt_res, xform_base, translated>>

cmVars ==
    <<cprofs, color_profile_list, xforms, color_transform_list, calls, ret, asserted>>

builderVars == <<builder, color_manager, builder_ret>>

protoVars == <<client, stock, android>>

utilVars == <<idalloc, ids, id_ret, hdr_output, hdr_meta, hdr_ret, protoVars>>

vars == <<optVars, cmVars, builderVars, utilVars>>

NoResult ==
    [pipe |-> <<>>, modified |-> FALSE, inv_pairs |-> {}, id_dropped |-> FALSE,
     aborted |-> FALSE, rounds |-> 0, first_mm |-> FALSE, first_mc |-> FALSE]

NoXform ==
    [status |-> CMLCMS_TRANSFORM_FAILED,
     base |-> [pre_curve |-> IdentityCurve, mapping |-> IdentityMapping,
               post_curve |-> IdentityCurve]]

\* What ret holds: the call, its argument, whether it succeeded, the
\* profile or transform it handed out, the message left in *errmsg and
\* surf_xform->identity_pipeline.
Returned(op, arg, ok, cprof, xform) ==
    [op |-> op, arg |-> arg, ok |-> ok, cprof |-> cprof, xform |-> xform,
     errmsg |-> "", identity_pipeline |-> FALSE]

\* What builder_ret holds: whether the call returned true (or a profile),
\* whether it ended in a crash, and the outputs of
\* ..._create_color_profile.
BuilderReturned(r, crashed, cprof, err, err_msg) ==
    [ret |-> r, crashed |-> crashed, cprof |-> cprof, err |-> err,
     err_msg |-> err_msg]

\* What the colour managers support: color-noop.c, color-lcms.c, and a
\* colour manager that supports every feature the setters ask for.
NoopColorManager ==
    [supported_color_features |-> {}, supported_primaries_named |-> {},
     supported_tf_named |-> {}]

LcmsColorManager ==
    [supported_color_features |-> {"ICC"},
     supported_primaries_named |-> {"CICP_SRGB", "ADOBE_RGB"},
     supported_tf_named |-> {}]

ParametricColorManager ==
    [supported_color_features |->
        {"SET_PRIMARIES", "SET_TF_POWER", "SET_MASTERING_DISPLAY_PRIMARIES"},
     supported_primaries_named |-> {"CICP_SRGB"},
     supported_tf_named |-> {"SRGB", "ST2084_PQ"}]

\* A builder just created, on which nothing is called.
InitBuilderIdle ==
    /\ builder = weston_color_profile_param_builder_create
    /\ color_manager = LcmsColorManager
    /\ builder_ret = BuilderReturned(FALSE, FALSE, NULL_info, Untouched, <<Untouched>>)

\* An allocator just created and an output in SDR mode, on which nothing is
\* called.
IdleOutput ==
    [eotf_mode |-> "SDR",
     cc |-> ColorCharacteristics({}, [i \in 1..3 |-> CIExy(Float(0), Float(0))],
                                 CIExy(Float(0), Float(0)), Float(0), Float(0),
                                 Float(0))]

IdReturned(op, id, fresh, failed) ==
    [op |-> op, id |-> id, fresh |-> fresh, asserted |-> failed]

InitIdallocIdle ==
    /\ idalloc = weston_idalloc_create
    /\ ids = {}
    /\ id_ret = IdReturned("", 0, FALSE, FALSE)

InitHdrIdle ==
    /\ hdr_meta = ZeroHdrMeta
    /\ hdr_ret = "not called"

\* No client, the stock profile made, no Android backend.
InitProtoIdle ==
    /\ client = IdleClient(64)
    /\ stock = StockCreated
    /\ android = NoBackend

InitUtilIdle ==
    /\ InitIdallocIdle
    /\ hdr_output = IdleOutput
    /\ InitHdrIdle
    /\ InitProtoIdle

\* The colour manager after cmlcms_init: the stock sRGB profile alone, with
\* the colour manager's reference and its extract.
InitCm ==
    /\ cprofs = [p \in ProfileSlots |->
                    IF p = sRGB_profile
                    THEN ColorProfile(CMLCMS_PROFILE_TYPE_ICC, StockIccData,
                                      cmsMD5computeID(StockIccData), <<>>, 1, TRUE)
                    ELSE NoProfile]
    /\ color_profile_list = <<sRGB_profile>>
    /\ xforms = [x \in TransformSlots |-> NoTransform]
    /\ color_transform_list = <<>>
    /\ calls = 0
    /\ ret = Returned("", NULL, FALSE, NULL, NULL)
    /\ asserted = FALSE

\* ------------------------------------------------- the optimizer, exercised

InitOpt ==
    /\ lut \in Pipelines
    /\ lut_in = lut
    /\ opt_op = <<>>
    /\ opt_res = NoResult
    /\ xform_base = NoXform
    /\ translated = FALSE
    /\ InitCm
    /\ InitUtilIdle
    /\ InitBuilderIdle

\* One call of merge_matrices on a fresh pipeline.
OptMergeMatrices ==
    /\ opt_op = <<>>
    /\ LET r == merge_matrices(lut)
       IN  /\ lut' = r.pipe
           /\ opt_res' = [NoResult EXCEPT !.pipe = r.pipe, !.modified = r.modified]
    /\ opt_op' = <<"merge_matrices">>
    /\ UNCHANGED <<lut_in, xform_base, translated, cmVars, builderVars, utilVars>>

\* One call of merge_curvesets on a fresh pipeline.
OptMergeCurvesets ==
    /\ opt_op = <<>>
    /\ LET r == merge_curvesets(lut)
       IN  /\ lut' = r.pipe
           /\ opt_res' = [NoResult EXCEPT !.pipe = r.pipe, !.modified = r.modified,
                            !.inv_pairs = r.inv_pairs, !.id_dropped = r.id_dropped,
                            !.aborted = r.aborted]
    /\ opt_op' = <<"merge_curvesets">>
    /\ UNCHANGED <<lut_in, xform_base, translated, cmVars, builderVars, utilVars>>

\* One call of lcms_optimize_pipeline, on a fresh pipeline or on the
\* pipeline the previous call produced (there is no next call once an
\* assertion has aborted the process).
OptOptimize ==
    /\ opt_op \in {<<>>, <<"optimize">>}
    /\ ~opt_res.aborted
    /\ LET r == lcms_optimize_pipeline(lut)
       IN  /\ lut' = r.pipe
           /\ opt_res' = [NoResult EXCEPT !.pipe = r.pipe, !.rounds = r.rounds,
                            !.first_mm = r.first_mm, !.first_mc = r.first_mc,
                            !.id_dropped = r.id_dropped, !.aborted = r.aborted]
    /\ opt_op' = Append(opt_op, "optimize")
    /\ UNCHANGED <<lut_in, xform_base, translated, cmVars, builderVars, utilVars>>

\* transform_factory: optimize_float_pipeline on the pipeline LittleCMS
\* hands to the plug-in.
OptTransformFactory ==
    /\ opt_op = <<>>
    /\ LET r == optimize_float_pipeline(lut)
       IN  /\ lut' = r.lut
           /\ xform_base' = [status |-> r.status, base |-> r.base]
           /\ translated' = (r.status = CMLCMS_TRANSFORM_OPTIMIZED)
           /\ opt_res' = [NoResult EXCEPT !.pipe = r.lut, !.aborted = r.aborted]
    /\ opt_op' = <<"transform_factory">>
    /\ UNCHANGED <<lut_in, cmVars, builderVars, utilVars>>

NextOpt ==
    \/ OptMergeMatrices
    \/ OptMergeCurvesets
    \/ OptOptimize
    \/ OptTransformFactory

SpecOpt == InitOpt /\ [][NextOpt]_vars

\* ------------------------------------------- the curve translation, exercised

\* Curve parameters are the halves n / 2 for n in -ParamMax .. ParamMax.
ParamMax == 2

ParamValues == {<<n, 2>> : n \in (-ParamMax)..ParamMax}

\* A curve every conversion accepts: g = 1 alone, or g = a = c = 1 and
\* b = d = 0.
AcceptedCurve(ptype) ==
    IF ptype \in {1, -1}
    THEN ParametricCurve(ptype, <<Rat1>>)
    ELSE ParametricCurve(ptype, <<Rat1, Rat1, Rat0, Rat1, Rat0>>)

\* A curve set of one type: one channel (or all three, for channel 0)
\* carries the parameter list params, the others an accepted curve.
ParametricCurveSet(ptype, channel, params) ==
    [i \in 1..3 |-> IF channel \in {0, i} THEN ParametricCurve(ptype, params)
                    ELSE AcceptedCurve(ptype)]

\* Curve sets that are not of a type with a conversion: a parametric type
\* without one (type 2: g, a, b), sampled curves, curves of mixed types.
OtherCurveSets ==
    {Triple(ParametricCurve(2, <<(<<2, 1>>), Rat1, Rat0>>)),
     Triple(TabulatedCurve(CurveTable(CurvePow2))),
     <<CurvePow2, CurveType4, CurvePow2>>,
     <<CurvePow2, CurvePow2, TabulatedCurve(CurveTable(CurvePow2))>>}

\* The curve sets explored: g alone for the types 1 and -1; g, a, b, c, d
\* for the types 4 and -4; the curve sets without a conversion.
InitCurve ==
    /\ \/ \E ptype \in {1, -1}, channel \in 0..3, g \in ParamValues :
              lut = <<CurveSetStage(ParametricCurveSet(ptype, channel, <<g>>))>>
       \/ \E ptype \in {4, -4}, channel \in 0..3 :
              \E g \in ParamValues, a \in ParamValues, b \in ParamValues,
                 c \in ParamValues, d \in ParamValues :
                  lut = <<CurveSetStage(ParametricCurveSet(ptype, channel,
                                                           <<g, a, b, c, d>>))>>
       \/ \E curves \in OtherCurveSets : lut = <<CurveSetStage(curves)>>
    /\ lut_in = lut
    /\ opt_op = <<>>
    /\ opt_res = NoResult
    /\ xform_base = NoXform
    /\ translated = FALSE
    /\ InitCm
    /\ InitUtilIdle
    /\ InitBuilderIdle

\* What a translate_* call on the curve set of lut left in the pre-curve.
CurveTranslated(op, r) ==
    /\ translated' = r.ok
    /\ xform_base' = [xform_base EXCEPT !.base.pre_curve = r.curve]
    /\ opt_op' = <<op>>
    /\ UNCHANGED <<lut, lut_in, opt_res, cmVars, builderVars, utilVars>>

\* translate_curve_element_parametric alone, on a pre-curve that is still
\* the identity.
CurveTranslateParametric ==
    /\ opt_op = <<>>
    /\ CurveTranslated("translate_curve_element_parametric",
           translate_curve_element_parametric(IdentityCurve, lut[1].TheCurves))

\* translate_curve_element with PRE_CURVE.
CurveTranslate ==
    /\ opt_op = <<>>
    /\ CurveTranslated("translate_curve_element", translate_curve_element(lut[1]))

NextCurve ==
    \/ CurveTranslateParametric
    \/ CurveTranslate

SpecCurve == InitCurve /\ [][NextCurve]_vars

\* -------------------------------------------- the colour manager, exercised

TheHeap == Heap(cprofs, color_profile_list, xforms, color_transform_list)

SetHeap(h) ==
    /\ cprofs' = h.cprofs
    /\ color_profile_list' = h.color_profile_list
    /\ xforms' = h.xforms
    /\ color_transform_list' = h.color_transform_list

\* The references to a profile that transforms hold: one for each role
\* (input, output) the profile has in a transform.
TransformRefs(cprof) ==
    Cardinality({x \in TransformSlots :
                    xforms[x].alive /\ xforms[x].search_key.input_profile = cprof})
  + Cardinality({x \in TransformSlots :
                    xforms[x].alive /\ xforms[x].search_key.output_profile = cprof})

\* The references to a profile that callers hold: all but the transforms'
\* and the colour manager's own reference to the stock profile.
CallerRefs(cprof) ==
    cprofs[cprof].ref_count - TransformRefs(cprof)
        - (IF cprof = sRGB_profile THEN 1 ELSE 0)

\* The profiles a surface or an output can carry: one its owner holds a
\* reference to, or none, which stands for the stock profile.
UsableProfiles ==
    {sRGB_profile} \cup {p \in ProfileSlots : cprofs[p].alive /\ CallerRefs(p) > 0}

InitCmOnly ==
    /\ lut = <<>>
    /\ lut_in = <<>>
    /\ opt_op = <<>>
    /\ opt_res = NoResult
    /\ xform_base = NoXform
    /\ translated = FALSE
    /\ InitCm
    /\ InitUtilIdle
    /\ InitBuilderIdle

ProfileReturned(op, arg, r) ==
    /\ SetHeap(r.h)
    /\ ret' = [Returned(op, arg, r.ok, r.cprof_out, NULL) EXCEPT !.errmsg = r.errmsg]
    /\ calls' = calls + 1
    /\ UNCHANGED <<asserted, optVars, builderVars, utilVars>>

TransformReturned(op, param, r) ==
    /\ SetHeap(r.h)
    /\ ret' = Returned(op, param, r.xform # NULL, NULL, r.xform)
    /\ asserted' = (asserted \/ r.asserted)
    /\ calls' = calls + 1
    /\ UNCHANGED <<optVars, builderVars, utilVars>>

Released(op, arg, cprof, xform, h) ==
    /\ SetHeap(h)
    /\ ret' = Returned(op, arg, TRUE, cprof, xform)
    /\ calls' = calls + 1
    /\ UNCHANGED <<asserted, optVars, builderVars, utilVars>>

GetColorProfileFromIcc ==
    /\ calls < MaxCalls
    /\ \E icc_data \in IccBuffers :
           ProfileReturned("cmlcms_get_color_profile_from_icc", icc_data,
                           cmlcms_get_color_profile_from_icc(TheHeap, icc_data))

GetColorProfileFromParams ==
    /\ calls < MaxCalls
    /\ \E params \in ParamsStructs :
           ProfileReturned("cmlcms_get_color_profile_from_params", params,
                           cmlcms_get_color_profile_from_params(TheHeap, params))

\* cmlcms_ref_stock_sRGB_color_profile.
RefStockProfile ==
    /\ calls < MaxCalls
    /\ ProfileReturned("cmlcms_ref_stock_sRGB_color_profile", NULL,
                       [ok |-> TRUE, errmsg |-> "", cprof_out |-> sRGB_profile,
                        h |-> ref_cprof(TheHeap, sRGB_profile)])

\* A caller drops one of its references to a profile.
UnrefProfile ==
    /\ calls < MaxCalls
    /\ \E cprof \in ProfileSlots :
           /\ cprofs[cprof].alive
           /\ CallerRefs(cprof) > 0
           /\ Released("weston_color_profile_unref", NULL, cprof, NULL,
                       weston_color_profile_unref(TheHeap, cprof))

\* cmlcms_get_surface_color_transform.
GetSurfaceColorTransform ==
    /\ calls < MaxCalls
    /\ \E surface \in UsableProfiles, output \in UsableProfiles,
          render_intent \in RenderIntents :
           LET r == cmlcms_get_surface_color_transform(TheHeap, surface, output,
                                                       render_intent)
           IN  /\ SetHeap(r.h)
               /\ ret' = [Returned("cmlcms_color_transform_get",
                                   SearchParam(CMLCMS_CATEGORY_INPUT_TO_BLEND, surface,
                                               output, render_intent),
                                   r.xform # NULL, NULL, r.xform)
                              EXCEPT !.identity_pipeline = r.identity_pipeline]
               /\ asserted' = (asserted \/ r.asserted)
               /\ calls' = calls + 1
               /\ UNCHANGED <<optVars, builderVars, utilVars>>

\* cmlcms_get_blend_to_output_color_transform.
GetBlendToOutputColorTransform ==
    /\ calls < MaxCalls
    /\ \E output \in UsableProfiles :
           TransformReturned("cmlcms_color_transform_get",
               SearchParam(CMLCMS_CATEGORY_BLEND_TO_OUTPUT, NULL, output, NoIntent),
               cmlcms_color_transform_get(TheHeap,
                   SearchParam(CMLCMS_CATEGORY_BLEND_TO_OUTPUT, NULL, output, NoIntent)))

\* cmlcms_get_sRGB_to_output_color_transform: no transform is asked for when
\* the output profile is the stock profile.
GetsRGBToOutputColorTransform ==
    /\ calls < MaxCalls
    /\ \E output \in UsableProfiles \ {sRGB_profile} :
           TransformReturned("cmlcms_color_transform_get",
               SearchParam(CMLCMS_CATEGORY_INPUT_TO_OUTPUT, sRGB_profile, output,
                           WESTON_RENDER_INTENT_PERCEPTUAL),
               cmlcms_color_transform_get(TheHeap,
                   SearchParam(CMLCMS_CATEGORY_INPUT_TO_OUTPUT, sRGB_profile, output,
                               WESTON_RENDER_INTENT_PERCEPTUAL)))

\* A caller drops one of the references to a transform; ret keeps the
\* transform's search key.
UnrefTransform ==
    /\ calls < MaxCalls
    /\ \E xform \in TransformSlots :
           /\ xforms[xform].alive
           /\ Released("weston_color_transform_unref", xforms[xform].search_key,
                       NULL, xform, weston_color_transform_unref(TheHeap, xform))

Next ==
    \/ GetColorProfileFromIcc
    \/ GetColorProfileFromParams
    \/ RefStockProfile
    \/ UnrefProfile
    \/ GetSurfaceColorTransform
    \/ GetBlendToOutputColorTransform
    \/ GetsRGBToOutputColorTransform
    \/ UnrefTransform

Spec == InitCmOnly /\ [][Next]_vars

\* ------------------------------------------- the colour manager, torn down

\* Whether cmlcms_destroy has been called: nothing is called on the colour
\* manager after it.
CmDestroyed == ret.op = "cmlcms_destroy"

\* cmlcms_destroy, in a build with assert() and in one without.  ret tells
\* whether free(cm) was reached and, as errmsg, what was logged.
CmDestroy ==
    /\ calls < MaxCalls
    /\ ~CmDestroyed
    /\ \E ndebug \in BOOLEAN :
           LET r == cmlcms_destroy(TheHeap, ndebug)
           IN  /\ SetHeap(r.h)
               /\ ret' = [Returned("cmlcms_destroy", ndebug, r.freed, NULL, NULL)
                              EXCEPT !.errmsg = IF r.logged THEN "BUG" ELSE ""]
               /\ asserted' = (asserted \/ r.aborted)
               /\ calls' = calls + 1
               /\ UNCHANGED <<optVars, builderVars, utilVars>>

NextDestroy ==
    \/ ~CmDestroyed /\ GetColorProfileFromIcc
    \/ ~CmDestroyed /\ GetColorProfileFromParams
    \/ ~CmDestroyed /\ RefStockProfile
    \/ ~CmDestroyed /\ UnrefProfile
    \/ ~CmDestroyed /\ GetSurfaceColorTransform
    \/ ~CmDestroyed /\ GetBlendToOutputColorTransform
    \/ ~CmDestroyed /\ GetsRGBToOutputColorTransform
    \/ ~CmDestroyed /\ UnrefTransform
    \/ CmDestroy

SpecDestroy == InitCmOnly /\ [][NextDestroy]_vars

\* ----------------------------------------------------- the builder, exercised

\* The setters stop being called once this many errors are stored.
MaxErrors == 1

\* The gamuts handed to set_primaries and set_target_primaries: sRGB, one
\* with a coordinate over 2.0, one whose white point is outside the triangle.
Gamuts ==
    {ColorGamut(Point(640, 330), Point(300, 600), Point(150, 60), Point(313, 329)),
     ColorGamut(Point(2500, 330), Point(300, 600), Point(150, 60), Point(313, 329)),
     ColorGamut(Point(640, 330), Point(300, 600), Point(150, 60), Point(800, 800))}

PrimariesNames == {"CICP_SRGB", "ADOBE_RGB"}

TfNames == {"SRGB", "ST2084_PQ"}

PowerExponents == {0, 2}

Luminances == {100, 500}

ContentLightLevels == {50, 100, 500, 600}

InitBuilder ==
    /\ lut = <<>>
    /\ lut_in = lut
    /\ opt_op = <<>>
    /\ opt_res = NoResult
    /\ xform_base = NoXform
    /\ translated = FALSE
    /\ InitCm
    /\ InitUtilIdle
    /\ builder = weston_color_profile_param_builder_create
    /\ color_manager \in {NoopColorManager, LcmsColorManager, ParametricColorManager}
    /\ builder_ret = BuilderReturned(FALSE, FALSE, NULL_info, Untouched, <<Untouched>>)

\* The builder can still be called: it is not destroyed, and no call on it
\* has crashed.
BuilderUsable == builder.destroyed = 0 /\ ~builder_ret.crashed

BuilderSet(r) ==
    /\ BuilderUsable
    /\ Len(builder.stored) < MaxErrors
    /\ builder' = r.builder
    /\ builder_ret' = BuilderReturned(r.ret, FALSE, NULL_info, Untouched, <<Untouched>>)
    /\ UNCHANGED <<color_manager, optVars, cmVars, utilVars>>

BuilderSetPrimaries ==
    \E primaries \in Gamuts :
        BuilderSet(
            weston_color_profile_param_builder_set_primaries(color_manager, builder, primaries))

BuilderSetPrimariesNamed ==
    \E primaries \in PrimariesNames :
        BuilderSet(
            weston_color_profile_param_builder_set_primaries_named(color_manager, builder, primaries))

BuilderSetTfNamed ==
    \E tf \in TfNames :
        BuilderSet(
            weston_color_profile_param_builder_set_tf_named(color_manager, builder, tf))

BuilderSetTfPowerExponent ==
    \E power_exponent \in PowerExponents :
        BuilderSet(
            weston_color_profile_param_builder_set_tf_power_exponent(color_manager, builder, power_exponent))

BuilderSetTargetPrimaries ==
    \E target_primaries \in Gamuts :
        BuilderSet(
            weston_color_profile_param_builder_set_target_primaries(color_manager, builder, target_primaries))

BuilderSetTargetLuminance ==
    \E min_luminance \in Luminances, max_luminance \in Luminances :
        BuilderSet(
            weston_color_profile_param_builder_set_target_luminance(builder, min_luminance, max_luminance))

BuilderSetMaxFALL ==
    \E maxFALL \in ContentLightLevels :
        BuilderSet(
            weston_color_profile_param_builder_set_maxFALL(builder, maxFALL))

BuilderSetMaxCLL ==
    \E maxCLL \in ContentLightLevels :
        BuilderSet(
            weston_color_profile_param_builder_set_maxCLL(builder, maxCLL))

\* The read of tf_info->tf through a null pointer is undefined: the call may
\* crash, or go on with any value read.
BuilderCreateColorProfile ==
    /\ BuilderUsable
    /\ \E cm_ret \in BOOLEAN,
          tf_read \in (IF builder.params.tf_info = NULL_info
                       THEN {"crash", "SRGB", "ST2084_PQ"}
                       ELSE {builder.params.tf_info}) :
           LET r == weston_color_profile_param_builder_create_color_profile(
                        builder, tf_read, cm_ret)
           IN  /\ builder' = r.builder
               /\ builder_ret' = BuilderReturned(
                                     r.cprof # NULL_info, r.crashed, r.cprof,
                                     r.err, r.err_msg)
    /\ UNCHANGED <<color_manager, optVars, cmVars, utilVars>>

NextBuilder ==
    \/ BuilderSetPrimaries
    \/ BuilderSetPrimariesNamed
    \/ BuilderSetTfNamed
    \/ BuilderSetTfPowerExponent
    \/ BuilderSetTargetPrimaries
    \/ BuilderSetTargetLuminance
    \/ BuilderSetMaxFALL
    \/ BuilderSetMaxCLL
    \/ BuilderCreateColorProfile

SpecBuilder == InitBuilder /\ [][NextBuilder]_vars

\* ------------------------------------------- the gamut validation, exercised

\* How far beyond the corners of the small triangle the white points go.
WhiteMargin == 2

\* The triangles of primaries explored: a small right triangle, three
\* collinear points, the sRGB primaries.
Triangles ==
    {<<Point(300, 300), Point(306, 300), Point(300, 310)>>,
     <<Point(300, 300), Point(305, 305), Point(310, 310)>>,
     <<Point(640, 330), Point(300, 600), Point(150, 60)>>}

\* The white points explored: the grid around the small triangle, and the
\* white point of sRGB.
WhitePoints ==
    {Point(x, y) : x \in (300 - WhiteMargin)..(310 + WhiteMargin),
                   y \in (300 - WhiteMargin)..(310 + WhiteMargin)}
        \cup {Point(313, 329)}

InitGamut ==
    /\ lut = <<>>
    /\ lut_in = lut
    /\ opt_op = <<>>
    /\ opt_res = NoResult
    /\ xform_base = NoXform
    /\ translated = FALSE
    /\ InitCm
    /\ InitUtilIdle
    /\ builder = weston_color_profile_param_builder_set_tf_named(
                    ParametricColorManager,
                    weston_color_profile_param_builder_create, "SRGB").builder
    /\ color_manager = ParametricColorManager
    /\ builder_ret = BuilderReturned(TRUE, FALSE, NULL_info, Untouched, <<Untouched>>)

\* set_primaries, once, with a gamut of the grid.
GamutSetPrimaries ==
    /\ WESTON_COLOR_PROFILE_PARAMS_PRIMARIES \notin builder.group_mask
    /\ \E t \in Triangles, w \in WhitePoints :
           BuilderSet(weston_color_profile_param_builder_set_primaries(
                          color_manager, builder, ColorGamut(t[1], t[2], t[3], w)))

\* set_primaries_named, for the target primaries to be explored alone.
GamutSetPrimariesNamed ==
    /\ WESTON_COLOR_PROFILE_PARAMS_PRIMARIES \notin builder.group_mask
    /\ BuilderSet(weston_color_profile_param_builder_set_primaries_named(
                      color_manager, builder, "CICP_SRGB"))

\* set_target_primaries, once, with a gamut of the grid, when the primaries
\* are the named ones.
GamutSetTargetPrimaries ==
    /\ builder.params.primaries_info # NULL_info
    /\ WESTON_COLOR_PROFILE_PARAMS_TARGET_PRIMARIES \notin builder.group_mask
    /\ \E t \in Triangles, w \in WhitePoints :
           BuilderSet(weston_color_profile_param_builder_set_target_primaries(
                          color_manager, builder, ColorGamut(t[1], t[2], t[3], w)))

NextGamut ==
    \/ GamutSetPrimaries
    \/ GamutSetPrimariesNamed
    \/ GamutSetTargetPrimaries
    \/ BuilderCreateColorProfile

SpecGamut == InitGamut /\ [][NextGamut]_vars

\* --------------------------------------------- the id allocator, exercised

\* The ids handed out at any time: enough to fill the two buckets the
\* allocator starts with and to allocate from the buckets added.
MaxLiveIds == 66

\* The allocator is asked for ids while it has at most this many buckets.
MaxBuckets == 4

\* The ids callers put back: the first and the last id of a bucket.
PutIds == {1, 31, 32, 63, 64}

InitIdalloc == InitCmOnly

\* weston_idalloc_get_id; fresh is what the memory added by xrealloc holds
\* when the allocator grows, the same pattern in every new bucket.
IdGet ==
    /\ ~id_ret.asserted
    /\ Cardinality(ids) < MaxLiveIds
    /\ idalloc.num_buckets <= MaxBuckets
    /\ \E pattern \in UninitializedBuckets :
           LET fresh == [b \in idalloc.num_buckets..(2 * idalloc.num_buckets - 1)
                            |-> pattern]
               r == weston_idalloc_get_id(idalloc, fresh)
           IN  /\ idalloc' = r.idalloc
               /\ ids' = IF r.asserted THEN ids ELSE ids \cup {r.id}
               /\ id_ret' = IdReturned("weston_idalloc_get_id", r.id,
                                       r.id \notin ids, r.asserted)
    /\ UNCHANGED <<optVars, cmVars, builderVars, hdr_output, hdr_meta, hdr_ret,
                   protoVars>>

\* weston_idalloc_put_id, on an id the caller holds.
IdPut ==
    /\ ~id_ret.asserted
    /\ \E id \in ids \cap PutIds :
           LET r == weston_idalloc_put_id(idalloc, id)
           IN  /\ idalloc' = r.idalloc
               /\ ids' = IF r.asserted THEN ids ELSE ids \ {id}
               /\ id_ret' = IdReturned("weston_idalloc_put_id", id, FALSE, r.asserted)
    /\ UNCHANGED <<optVars, cmVars, builderVars, hdr_output, hdr_meta, hdr_ret,
                   protoVars>>

NextIdalloc ==
    \/ IdGet
    \/ IdPut

SpecIdalloc == InitIdalloc /\ [][NextIdalloc]_vars

\* ------------------------------------------------ the HDR metadata, exercised

\* The values of a colour characteristic: NaN, the infinities, and numbers
\* below, at, inside and above each range.
HdrValues ==
    {NaN, Infinity(1), Infinity(-1)}
        \cup {Float(v) : v \in {-1, 0, 1, 5000, 10000, 10001, 65535, 65536,
                                1000000, 655350000, 655350001}}

\* The groups of enum weston_color_characteristics_groups.
CharacteristicsGroups == {"PRIMARIES", "WHITE", "MAXL", "MINL", "MAXFALL"}

\* The fields of struct weston_color_characteristics.
CharacteristicsFields ==
    ({"primary"} \X (1..3) \X {"x", "y"})
        \cup ({"white"} \X {0} \X {"x", "y"})
        \cup ({"max_luminance", "min_luminance", "maxFALL"} \X {0} \X {""})

\* Colour characteristics that are in range (BT.709 primaries, D65,
\* 1000, 0.01 and 400 cd/m2) but for the field named, which holds v.
CharacteristicsWith(group_mask, field, v) ==
    LET at(name, i, xy, default) == IF field = <<name, i, xy>> THEN v ELSE Float(default)
    IN  ColorCharacteristics(group_mask,
            <<CIExy(at("primary", 1, "x", 6400), at("primary", 1, "y", 3300)),
              CIExy(at("primary", 2, "x", 3000), at("primary", 2, "y", 6000)),
              CIExy(at("primary", 3, "x", 1500), at("primary", 3, "y", 600))>>,
            CIExy(at("white", 0, "x", 3127), at("white", 0, "y", 3290)),
            at("max_luminance", 0, "", 10000000),
            at("min_luminance", 0, "", 100),
            at("maxFALL", 0, "", 4000000))

InitHdr ==
    /\ lut = <<>>
    /\ lut_in = <<>>
    /\ opt_op = <<>>
    /\ opt_res = NoResult
    /\ xform_base = NoXform
    /\ translated = FALSE
    /\ InitCm
    /\ InitBuilderIdle
    /\ InitIdallocIdle
    /\ InitHdrIdle
    /\ InitProtoIdle
    /\ \E eotf_mode \in {"SDR", "ST2084"}, group_mask \in SUBSET CharacteristicsGroups,
          field \in CharacteristicsFields, v \in HdrValues :
           hdr_output = [eotf_mode |-> eotf_mode,
                         cc |-> CharacteristicsWith(group_mask, field, v)]

\* cmlcms_get_hdr_meta on the output, with a zeroed struct to fill.
HdrGetMeta ==
    /\ hdr_ret = "not called"
    /\ LET r == cmlcms_get_hdr_meta(hdr_output, hdr_meta)
       IN  /\ hdr_meta' = r.hdr_meta
           /\ hdr_ret' = IF r.ret THEN "true" ELSE "false"
    /\ UNCHANGED <<optVars, cmVars, builderVars, idalloc, ids, id_ret, hdr_output,
                   protoVars>>

NextHdr == HdrGetMeta

SpecHdr == InitHdr /\ [][NextHdr]_vars

\* ------------------------------------------- the protocol objects, exercised

\* The requests a client is served.
MaxRequests == 5

\* The offsets and lengths a client passes with a file.
IccOffsets == {0, 64, 2147483647}
IccLengths == {0, 64, IccFileSize, MaxIccSize, MaxIccSize + 1}

\* output->color_profile of the one output: the stock profile.
OutputColorProfile == sRGB_profile

InitProto ==
    /\ lut = <<>>
    /\ lut_in = <<>>
    /\ opt_op = <<>>
    /\ opt_res = NoResult
    /\ xform_base = NoXform
    /\ translated = FALSE
    /\ InitCm
    /\ InitIdallocIdle
    /\ hdr_output = IdleOutput
    /\ InitHdrIdle
    /\ InitBuilderIdle
    /\ client \in {IdleClient(32), IdleClient(64)}
    /\ stock = StockCreated
    /\ android = NoBackend

\* Whether the client's next request is dispatched.
Served ==
    /\ client.connected
    /\ client.error = ""
    /\ client.requests < MaxRequests

\* The client as a request of it is dispatched.
Dispatched(op, desc) ==
    [client EXCEPT !.requests = @ + 1, !.last = Request(op, desc)]

SetServer(s) ==
    /\ SetHeap(s.h)
    /\ client' = s.c
    /\ UNCHANGED <<calls, ret, asserted, optVars, builderVars, idalloc, ids, id_ret,
                   hdr_output, hdr_meta, hdr_ret, stock, android>>

NewImageDescriptionCreatorIcc ==
    /\ Served
    /\ ~client.cm_creator_icc.owner
    /\ \E created \in BOOLEAN :
           SetServer(Server(TheHeap,
               cm_new_image_description_creator_icc(
                   Dispatched("cm_new_image_description_creator_icc", 0), created)))

\* set_icc_file; the descriptor received with the request is the last of
\* client.fds.
CreatorIccSetIccFile ==
    /\ Served
    /\ client.cm_creator_icc.owner
    /\ \E file \in ClientFiles, offset \in IccOffsets, length \in IccLengths :
           LET c == [Dispatched("cm_creator_icc_set_icc_file", 0) EXCEPT
                         !.fds = Append(@, [file |-> file, closes |-> 0]),
                         !.last.fd = Len(client.fds) + 1,
                         !.last.offset = offset,
                         !.last.length = length]
           IN  SetServer(Server(TheHeap,
                   cm_creator_icc_set_icc_file(c, Len(c.fds), offset, length)))

CreatorIccCreate ==
    /\ Served
    /\ client.cm_creator_icc.owner
    /\ \E d \in ImageDescSlots, created \in BOOLEAN, oom \in BOOLEAN :
           /\ ~client.image_descs[d].owner
           /\ SetServer(cm_creator_icc_create(
                  Server(TheHeap, Dispatched("cm_creator_icc_create", d)),
                  d, created, oom))

OutputGetImageDescription ==
    /\ Served
    /\ \E d \in ImageDescSlots, head \in BOOLEAN, created \in BOOLEAN :
           /\ ~client.image_descs[d].owner
           /\ SetServer(cm_output_get_image_description(
                  Server(TheHeap, Dispatched("cm_output_get_image_description", d)),
                  d, head, OutputColorProfile, created))

ImageDescriptionGetInformation ==
    /\ Served
    /\ \E d \in ImageDescSlots, created \in BOOLEAN :
           /\ client.image_descs[d].owner
           /\ SetServer(image_description_get_information(
                  Server(TheHeap, Dispatched("image_description_get_information", d)),
                  d, created))

\* image_description_destroy: wl_resource_destroy on the resource.
ImageDescriptionDestroy ==
    /\ Served
    /\ \E d \in ImageDescSlots :
           /\ client.image_descs[d].owner
           /\ SetServer(image_description_resource_destroy(
                  Server(TheHeap, Dispatched("image_description_destroy", d)), d))

\* The client disconnects or is disconnected after a protocol error.
ClientDestroy ==
    /\ client.connected
    /\ SetServer(wl_client_destroy(
           Server(TheHeap, [client EXCEPT !.last = Request("wl_client_destroy", 0)])))

NextProto ==
    \/ NewImageDescriptionCreatorIcc
    \/ CreatorIccSetIccFile
    \/ CreatorIccCreate
    \/ OutputGetImageDescription
    \/ ImageDescriptionGetInformation
    \/ ImageDescriptionDestroy
    \/ ClientDestroy

SpecProto == InitProto /\ [][NextProto]_vars

\* --------------------------------------------- the colour manager, started

InitStartup ==
    /\ lut = <<>>
    /\ lut_in = <<>>
    /\ opt_op = <<>>
    /\ opt_res = NoResult
    /\ xform_base = NoXform
    /\ translated = FALSE
    /\ cprofs = [p \in ProfileSlots |-> NoProfile]
    /\ color_profile_list = <<>>
    /\ xforms = [x \in TransformSlots |-> NoTransform]
    /\ color_transform_list = <<>>
    /\ calls = 0
    /\ ret = Returned("", NULL, FALSE, NULL, NULL)
    /\ asserted = FALSE
    /\ InitIdallocIdle
    /\ hdr_output = IdleOutput
    /\ InitHdrIdle
    /\ InitBuilderIdle
    /\ client = IdleClient(64)
    /\ stock = NoStock
    /\ android = NoBackend

\* cmlcms_init, as far as cmlcms_create_stock_profile.
CmInit ==
    /\ stock.init = ""
    /\ \E k \in 1..Len(StockFailures) :
           LET r == cmlcms_create_stock_profile(TheHeap, StockFailures[k])
           IN  /\ SetHeap(r.h)
               /\ stock' = r.stock
               /\ ret' = Returned("cmlcms_init", StockFailures[k], r.ok, NULL, NULL)
               /\ UNCHANGED <<calls, asserted, optVars, builderVars, idalloc, ids,
                              id_ret, hdr_output, hdr_meta, hdr_ret, client, android>>

\* cmlcms_destroy, after cmlcms_init succeeded or failed.
CmDestroyStarted ==
    /\ stock.init # ""
    /\ calls < MaxCalls
    /\ ~CmDestroyed
    /\ \E ndebug \in BOOLEAN :
           LET d == cmlcms_destroy_stock(TheHeap, stock, ndebug)
           IN  /\ SetHeap(d.r.h)
               /\ stock' = d.stock
               /\ ret' = [Returned("cmlcms_destroy", ndebug, d.r.freed, NULL, NULL)
                              EXCEPT !.errmsg = IF d.r.logged THEN "BUG" ELSE ""]
               /\ asserted' = (asserted \/ d.r.aborted)
               /\ calls' = calls + 1
               /\ UNCHANGED <<optVars, builderVars, idalloc, ids, id_ret, hdr_output,
                              hdr_meta, hdr_ret, client, android>>

\* The colour manager is used only when cmlcms_init succeeded.
Started == stock.init = "ok" /\ ~CmDestroyed

NextStartup ==
    \/ CmInit
    \/ Started /\ GetColorProfileFromIcc
    \/ Started /\ GetColorProfileFromParams
    \/ Started /\ RefStockProfile
    \/ Started /\ UnrefProfile
    \/ Started /\ GetSurfaceColorTransform
    \/ Started /\ GetBlendToOutputColorTransform
    \/ Started /\ GetsRGBToOutputColorTransform
    \/ Started /\ UnrefTransform
    \/ CmDestroyStarted

SpecStartup == InitStartup /\ [][NextStartup]_vars

\* ------------------------------------------ the Android backend, exercised

HeadNames == {"android1", "android2", "android3"}

MaxOutputs == 3

\* The outputs that exist.
LiveOutputs ==
    {o \in 1..Len(android.outputs) : android.outputs[o] # "destroyed"}

SetBackend(a) ==
    /\ android' = a
    /\ UNCHANGED <<optVars, cmVars, builderVars, idalloc, ids, id_ret, hdr_output,
                   hdr_meta, hdr_ret, client, stock>>

BackendInit ==
    /\ android.b = ""
    /\ android.formats = ""
    /\ \E k \in 1..Len(BackendFailures) :
           SetBackend(weston_backend_init(android, BackendFailures[k]))

HeadCreate ==
    /\ android.b = "allocated"
    /\ \E name \in HeadNames \ android.heads :
           SetBackend(android_head_create(android, name))

OutputCreate ==
    /\ android.b = "allocated"
    /\ Len(android.outputs) < MaxOutputs
    /\ \E name \in HeadNames : SetBackend(android_output_create(android, name))

OutputEnable ==
    /\ android.b = "allocated"
    /\ \E o \in LiveOutputs :
           /\ android.outputs[o] = "pending"
           /\ SetBackend(android_output_enable(android, o))

OutputDisable ==
    /\ android.b = "allocated"
    /\ \E o \in LiveOutputs :
           /\ android.outputs[o] = "enabled"
           /\ SetBackend(android_output_disable(android, o))

OutputDestroy ==
    /\ android.b = "allocated"
    /\ \E o \in LiveOutputs : SetBackend(android_output_destroy(android, o))

\* android_destroy, called by the compositor once its outputs are gone.
AndroidDestroy ==
    /\ android.b = "allocated"
    /\ LiveOutputs = {}
    /\ \E intact \in BOOLEAN : SetBackend(android_destroy(android, intact))

NextAndroid ==
    \/ BackendInit
    \/ HeadCreate
    \/ OutputCreate
    \/ OutputEnable
    \/ OutputDisable
    \/ OutputDestroy
    \/ AndroidDestroy

SpecAndroid == InitCmOnly /\ [][NextAndroid]_vars

\* ----------------------------------------- properties of the colour manager

InList(list, elm) == \E k \in 1..Len(list) : list[k] = elm

\* C1: a successful cmlcms_color_transform_get returns a transform that was
\* in the registry before the call if and only if that transform's search
\* key agrees with the call's in category, input profile, output profile
\* and render intent; a hit adds one reference and leaves the registry as it
\* was; and the registry never holds two transforms with equal keys.
C1_TransformCacheKeyed ==
    [][/\ \A x, y \in TransformSlots :
              (/\ x # y
               /\ InList(color_transform_list', x)
               /\ InList(color_transform_list', y))
              => (xforms'[x].search_key # xforms'[y].search_key)
       /\ (ret'.op = "cmlcms_color_transform_get" /\ ret'.ok) =>
              \A x \in TransformSlots :
                  InList(color_transform_list, x) =>
                      /\ (ret'.xform = x) <=>
                             /\ xforms[x].search_key.category = ret'.arg.category
                             /\ xforms[x].search_key.input_profile = ret'.arg.input_profile
                             /\ xforms[x].search_key.output_profile = ret'.arg.output_profile
                             /\ xforms[x].search_key.render_intent = ret'.arg.render_intent
                      /\ (ret'.xform = x) =>
                             /\ xforms'[x].ref_count = xforms[x].ref_count + 1
                             /\ color_transform_list' = color_transform_list]_vars

\* A hit on one transform, and a second transform that differs from it in
\* the render intent alone.
C1_Witness ==
    /\ ret.op = "cmlcms_color_transform_get"
    /\ ret.ok
    /\ \E x, y \in TransformSlots :
           /\ InList(color_transform_list, x)
           /\ InList(color_transform_list, y)
           /\ xforms[x].ref_count = 2
           /\ xforms[x].search_key.render_intent # xforms[y].search_key.render_intent
           /\ xforms[x].search_key.category = xforms[y].search_key.category
           /\ xforms[x].search_key.input_profile = xforms[y].search_key.input_profile
           /\ xforms[x].search_key.output_profile = xforms[y].search_key.output_profile

\* C2: cmlcms_get_color_profile_from_icc on a valid buffer whose digest is
\* that of an ICC profile alive in the profile list returns that very
\* profile, adds exactly one to its reference count, leaves the profile list
\* as it was and touches no other profile.
C2_IccProfilesDeduplicated ==
    [][(ret'.op = "cmlcms_get_color_profile_from_icc") =>
           \A p \in ProfileSlots :
               (/\ InList(color_profile_list, p)
                /\ cprofs[p].type = CMLCMS_PROFILE_TYPE_ICC
                /\ validate_icc_profile(ret'.arg)
                /\ cprofs[p].md5sum = cmsMD5computeID(ret'.arg))
               => /\ ret'.ok
                  /\ ret'.cprof = p
                  /\ cprofs' = [cprofs EXCEPT ![p].ref_count = @ + 1]
                  /\ color_profile_list' = color_profile_list]_vars

\* The same buffer was handed in twice: one profile, two references.
C2_Witness ==
    /\ ret.op = "cmlcms_get_color_profile_from_icc"
    /\ ret.ok
    /\ calls = 2
    /\ cprofs[ret.cprof].icc = ret.arg
    /\ cprofs[ret.cprof].ref_count = 2
    /\ Len(color_profile_list) = 2

\* C3: no assertion of xform_realize_chain fails, and a blend-to-output
\* transform that was built never has status 3DLUT nor a 3D-LUT mapping.
C3_BlendToOutputNever3DLUT ==
    /\ ~asserted
    /\ \A x \in TransformSlots :
           (/\ xforms[x].alive
            /\ xforms[x].search_key.category = CMLCMS_CATEGORY_BLEND_TO_OUTPUT)
           => /\ xforms[x].status = CMLCMS_TRANSFORM_OPTIMIZED
              /\ xforms[x].mapping # "3D_LUT"

\* A blend-to-output transform for an ICC profile that has a VCGT tag.
C3_Witness ==
    \E x \in TransformSlots :
        /\ InList(color_transform_list, x)
        /\ xforms[x].search_key.category = CMLCMS_CATEGORY_BLEND_TO_OUTPUT
        /\ VcgtTag(cprofs[xforms[x].search_key.output_profile].icc) # <<>>
        /\ xforms[x].status = CMLCMS_TRANSFORM_OPTIMIZED

\* The reference count of a profile slot, 0 once the profile is destroyed.
RefCountOf(profiles, p) == IF profiles[p].alive THEN profiles[p].ref_count ELSE 0

\* The last reference to the transform in slot ret'.xform is dropped.
C6_LastReferenceDropped ==
    /\ ret'.op = "weston_color_transform_unref"
    /\ xforms[ret'.xform].ref_count = 1

\* The claim as stated: the transform leaves the registry, the reference
\* counts of its input profile (if any) and of its output profile each
\* drop by exactly one, and no other transform or profile changes.
C6_EachProfileDropsByOne ==
    [][C6_LastReferenceDropped =>
           /\ color_transform_list' = wl_list_remove(color_transform_list, ret'.xform)
           /\ xforms' = [xforms EXCEPT ![ret'.xform] = NoTransform]
           /\ \A p \in ProfileSlots :
                  IF p # NULL /\ p \in {ret'.arg.input_profile, ret'.arg.output_profile}
                  THEN RefCountOf(cprofs', p) = RefCountOf(cprofs, p) - 1
                  ELSE cprofs'[p] = cprofs[p]]_vars

\* C6: when a transform's reference count reaches zero it leaves the
\* registry and releases one reference for each role a profile has in it:
\* the count of its input profile (if any) and of its output profile drop
\* by one each, by two when one profile is both; a profile whose count
\* reaches zero is destroyed and leaves the profile list; no other transform
\* or profile changes.
C6_DestroyReleasesEachRole ==
    [][C6_LastReferenceDropped =>
           /\ color_transform_list' = wl_list_remove(color_transform_list, ret'.xform)
           /\ xforms' = [xforms EXCEPT ![ret'.xform] = NoTransform]
           /\ \A p \in ProfileSlots :
                  LET roles == (IF ret'.arg.input_profile = p THEN 1 ELSE 0)
                                 + (IF ret'.arg.output_profile = p THEN 1 ELSE 0)
                  IN  /\ RefCountOf(cprofs', p) = RefCountOf(cprofs, p) - roles
                      /\ (roles = 0) => (cprofs'[p] = cprofs[p])
                      /\ InList(color_profile_list', p)
                           = (InList(color_profile_list, p) /\ RefCountOf(cprofs', p) > 0)]_vars

\* A transform whose input and output profile are one profile was
\* destroyed.
C6_Witness ==
    /\ ret.op = "weston_color_transform_unref"
    /\ ~xforms[ret.xform].alive
    /\ ret.arg.input_profile = ret.arg.output_profile
    /\ color_transform_list = <<>>

\* C7: cmlcms_get_color_profile_from_params succeeds; for a parametric
\* profile alive in the list whose parameter bytes all equal the bytes
\* handed in, it returns that profile with one more reference and a list
\* left as it was; it never returns a profile whose parameter bytes differ
\* in any byte from those handed in.
C7_ParamsProfilesKeyedByBytes ==
    [][(ret'.op = "cmlcms_get_color_profile_from_params") =>
           /\ ret'.ok
           /\ cprofs'[ret'.cprof].alive
           /\ cprofs'[ret'.cprof].params = ret'.arg
           /\ \A p \in ProfileSlots :
                  (/\ InList(color_profile_list, p)
                   /\ cprofs[p].type = CMLCMS_PROFILE_TYPE_PARAMS)
                  => /\ (cprofs[p].params = ret'.arg) =>
                            /\ ret'.cprof = p
                            /\ cprofs' = [cprofs EXCEPT ![p].ref_count = @ + 1]
                            /\ color_profile_list' = color_profile_list
                     /\ (cprofs[p].params # ret'.arg) => (ret'.cprof # p)]_vars

\* Equal bytes twice, then bytes that encode the same values but differ:
\* one profile with two references and a second profile.
C7_Witness ==
    /\ ret.op = "cmlcms_get_color_profile_from_params"
    /\ \E p, q \in ProfileSlots :
           /\ p # q
           /\ cprofs[p].alive /\ cprofs[p].type = CMLCMS_PROFILE_TYPE_PARAMS
           /\ cprofs[q].alive /\ cprofs[q].type = CMLCMS_PROFILE_TYPE_PARAMS
           /\ cprofs[p].ref_count = 2
           /\ cprofs[p].params # cprofs[q].params
           /\ ParamsValue(cprofs[p].params) = ParamsValue(cprofs[q].params)

\* ------------------------------------------------ properties of the optimizer

\* The stage types of a pipeline, in order.
TypeSeq(p) == [k \in 1..Len(p) |-> p[k].type]

IsNotCurveSet(stage) == stage.type # cmsSigCurveSetElemType

IsNotZeroOffsetMatrix(stage) == ~is_matrix_stage_with_zero_offset(stage)

\* The product M_n * ... * M_1 of the matrices of a non-empty list of matrix
\* stages, and the product of their denominators.
RECURSIVE MatrixProductOf(_)
MatrixProductOf(p) ==
    IF Len(p) = 1 THEN stage_matrix_transpose(p[1].Double)
    ELSE cmsMAT3per(stage_matrix_transpose(p[Len(p)].Double),
                    MatrixProductOf(SubSeq(p, 1, Len(p) - 1)))

RECURSIVE DenProductOf(_)
DenProductOf(p) == IF p = <<>> THEN 1 ELSE Head(p).den * DenProductOf(Tail(p))

\* C4: a second run of lcms_optimize_pipeline, on the pipeline the first run
\* produced, changes nothing: its first round is its only round, in it both
\* merge_matrices and merge_curvesets report no modification, and the stage
\* list is the one the first run left.
C4_OptimizeIdempotent ==
    (opt_op = <<"optimize", "optimize">>) =>
        /\ opt_res.rounds = 1
        /\ ~opt_res.first_mm
        /\ ~opt_res.first_mc
        /\ lut = lcms_optimize_pipeline(lut_in).pipe

C4_Witness ==
    /\ opt_op = <<"optimize", "optimize">>
    /\ Len(lut_in) = 3
    /\ Len(lut) = 1
    /\ lut # SubSeq(lut_in, 1, 1)

\* C5: after optimize_float_pipeline the status is OPTIMIZED only when the
\* optimized pipeline is empty (all three steps identity) or is an optional
\* curve set, an optional matrix and an optional curve set in that order
\* with nothing after; every other residual pipeline gets the 3D-LUT
\* fallback with identity pre- and post-curves.
C5_Shapes ==
    {<<>>,
     <<cmsSigCurveSetElemType>>,
     <<cmsSigMatrixElemType>>,
     <<cmsSigCurveSetElemType, cmsSigMatrixElemType>>,
     <<cmsSigMatrixElemType, cmsSigCurveSetElemType>>,
     <<cmsSigCurveSetElemType, cmsSigCurveSetElemType>>,
     <<cmsSigCurveSetElemType, cmsSigMatrixElemType, cmsSigCurveSetElemType>>}

C5_OptimizedOnlyForThreeSteps ==
    (opt_op = <<"transform_factory">>) =>
        /\ xform_base.status \in {CMLCMS_TRANSFORM_OPTIMIZED, CMLCMS_TRANSFORM_3DLUT}
        /\ (xform_base.status = CMLCMS_TRANSFORM_OPTIMIZED) => (TypeSeq(lut) \in C5_Shapes)
        /\ (xform_base.status = CMLCMS_TRANSFORM_OPTIMIZED /\ lut = <<>>) =>
               /\ xform_base.base.pre_curve.type = "IDENTITY"
               /\ xform_base.base.mapping.type = "IDENTITY"
               /\ xform_base.base.post_curve.type = "IDENTITY"
        /\ (TypeSeq(lut) \notin C5_Shapes) =>
               /\ xform_base.status = CMLCMS_TRANSFORM_3DLUT
               /\ xform_base.base.pre_curve.type = "IDENTITY"
               /\ xform_base.base.mapping.type = "3D_LUT"
               /\ xform_base.base.post_curve.type = "IDENTITY"

C5_Witness ==
    /\ opt_op = <<"transform_factory">>
    /\ xform_base.status = CMLCMS_TRANSFORM_OPTIMIZED
    /\ TypeSeq(lut) =
         <<cmsSigCurveSetElemType, cmsSigMatrixElemType, cmsSigCurveSetElemType>>
    /\ Len(lut_in) = 3

\* C8: when merge_curvesets meets an adjacent pair of curve-set stages
\* (positions e - 1 and e of the pipeline) that are exact inverses, it
\* reports a modification and emits nothing for the pair: the result is what
\* the pass makes of the stages before the pair followed by what it makes of
\* the stages after it, every stage that is not a curve set is kept in
\* order, and when the pair are the only curve sets the result is the
\* pipeline without those two stages.  A pipeline that starts with such a
\* pair always has it met.
C8_InversePairDropped ==
    (opt_op = <<"merge_curvesets">>) =>
        /\ (/\ Len(lut_in) >= 2
            /\ lut_in[1].type = cmsSigCurveSetElemType
            /\ lut_in[2].type = cmsSigCurveSetElemType
            /\ are_curvesets_inverse(lut_in[1], lut_in[2])) => (2 \in opt_res.inv_pairs)
        /\ \A e \in opt_res.inv_pairs :
            /\ e \in 2..Len(lut_in)
            /\ are_curvesets_inverse(lut_in[e - 1], lut_in[e])
            /\ opt_res.modified
            /\ lut = merge_curvesets(SubSeq(lut_in, 1, e - 2)).pipe
                       \o merge_curvesets(SubSeq(lut_in, e + 1, Len(lut_in))).pipe
            /\ SelectSeq(lut, IsNotCurveSet) = SelectSeq(lut_in, IsNotCurveSet)
            /\ (\A k \in (1..Len(lut_in)) \ {e - 1, e} : IsNotCurveSet(lut_in[k])) =>
                   (lut = SubSeq(lut_in, 1, e - 2) \o SubSeq(lut_in, e + 1, Len(lut_in)))

C8_Witness ==
    /\ opt_op = <<"merge_curvesets">>
    /\ lut_in = <<StageCurvesPow2, StageCurvesPow2Inv, StageSwap>>
    /\ opt_res.inv_pairs = {2}
    /\ lut = <<StageSwap>>

\* C9: merge_matrices replaces every run of consecutive zero-offset matrix
\* stages by their product, later stage times earlier stage: a pipeline of
\* zero-offset matrices M1 .. Mn only becomes the single matrix
\* Mn * ... * M1 (or nothing when that product is the identity), no two
\* zero-offset matrices stay adjacent, the other stages are kept in order,
\* and the merged pipeline maps every test colour as the original does.
C9_MatrixRunsMerged ==
    (opt_op = <<"merge_matrices">>) =>
        /\ \A k \in 1..(Len(lut) - 1) :
               IsNotZeroOffsetMatrix(lut[k]) \/ IsNotZeroOffsetMatrix(lut[k + 1])
        /\ SelectSeq(lut, IsNotZeroOffsetMatrix) = SelectSeq(lut_in, IsNotZeroOffsetMatrix)
        /\ (lut_in # <<>> /\ SelectSeq(lut_in, IsNotZeroOffsetMatrix) = <<>>) =>
               /\ Len(lut) <= 1
               /\ opt_res.modified = (Len(lut_in) >= 2 \/ lut = <<>>)
               /\ (lut = <<>>) =>
                      matrix_is_identity(MAT3AsDouble(MatrixProductOf(lut_in)),
                                         DenProductOf(lut_in), MATRIX_PRECISION_BITS)
               /\ (lut # <<>>) =>
                      \A k \in 1..9 :
                          lut[1].Double[k] * DenProductOf(lut_in)
                            = MAT3AsDouble(MatrixProductOf(lut_in))[k] * lut[1].den
        /\ Evaluable(lut_in) =>
               \A v \in TestColours :
                   ColourEq(ApplyPipeline(lut, v), ApplyPipeline(lut_in, v))

C9_Witness ==
    /\ opt_op = <<"merge_matrices">>
    /\ lut_in = <<StageSwap, StageShear, StageHalf>>
    /\ Len(lut) = 1
    /\ lut[1].Double = <<1, 1, 0, 1, 0, 0, 0, 0, 1>>
    /\ lut[1].den = 2

\* C10: when the optimizer removes an identity curve-set stage, the clamping
\* to [0,1] that the stage provided is not lost: the optimized pipeline maps
\* every in-range test colour as the original pipeline does.
C10_ClampingKept ==
    (opt_op = <<"optimize">> /\ opt_res.id_dropped /\ Evaluable(lut_in)) =>
        \A v \in TestColours :
            ColourEq(ApplyPipeline(lut, v), ApplyPipeline(lut_in, v))

\* The optimizer has dropped an identity curve set between a matrix that
\* doubles and one that halves, and nothing is left to clamp.
C10_ClampingLost ==
    /\ opt_op = <<"optimize">>
    /\ lut_in = <<StageScale2, StageCurvesIdentity, StageHalf>>
    /\ opt_res.id_dropped
    /\ lut = <<>>

\* ----------------------------------------------- properties of the translation

\* A curve-set stage whose number of curves is not 3.
UnsupportedCount(stage) ==
    /\ stage.type = cmsSigCurveSetElemType
    /\ Len(stage.TheCurves) # 3

AllMatricesZeroOffset(p) ==
    \A k \in 1..Len(p) :
        (p[k].type = cmsSigMatrixElemType) => is_matrix_stage_with_zero_offset(p[k])

\* C11: a curve-set stage with a number of curves other than 3, in a
\* pipeline of an accepted shape, is translated into a 3x1D LUT curve and
\* the translation of the pipeline succeeds (status OPTIMIZED).
C11_UnsupportedCountBecomesLut ==
    (/\ opt_op = <<"transform_factory">>
     /\ ~opt_res.aborted
     /\ TypeSeq(lut) \in C5_Shapes
     /\ AllMatricesZeroOffset(lut)) =>
        /\ (lut # <<>> /\ UnsupportedCount(lut[1])) =>
               /\ xform_base.status = CMLCMS_TRANSFORM_OPTIMIZED
               /\ xform_base.base.pre_curve.type = "LUT_3x1D"
        /\ (Len(lut) >= 2 /\ UnsupportedCount(lut[Len(lut)])) =>
               /\ xform_base.status = CMLCMS_TRANSFORM_OPTIMIZED
               /\ xform_base.base.post_curve.type = "LUT_3x1D"

\* A pipeline that is one curve set of a single curve: the translation has
\* failed and the transform fell back to the 3D LUT.
C11_TranslationFailed ==
    /\ opt_op = <<"transform_factory">>
    /\ lut_in = <<StageCurvesMono>>
    /\ lut = <<StageCurvesMono>>
    /\ ~opt_res.aborted
    /\ xform_base.status = CMLCMS_TRANSFORM_3DLUT
    /\ xform_base.base.pre_curve.type = "IDENTITY"

\* The curve set handed to the translation, and the pre-curve it wrote.
TheCurveSet == lut[1].TheCurves

ThePreCurve == xform_base.base.pre_curve

\* All three curves are parametric curves of the LittleCMS type ptype.
AllOfType(curves, ptype) == \A i \in 1..3 : curves[i].ptype = ptype

\* The validity preconditions, channel by channel, as the claims state them.
Type1InverseRejected(p) == p[1][1] = 0

Type4Rejected(p) ==
    \/ p[2][1] < 0
    \/ p[5][1] < 0
    \/ p[2][1] * p[5][1] * p[3][2] + p[3][1] * p[2][2] * p[5][2] < 0

Type4InverseRejected(p) == p[1][1] = 0 \/ p[2][1] = 0 \/ p[4][1] = 0

\* A 3-channel curve set that is not of the type 1, -1, 4 or -4, or whose
\* conversion a validity precondition rejects.
NotConvertible(curves) ==
    \/ ~(\E ptype \in {1, -1, 4, -4} : AllOfType(curves, ptype))
    \/ AllOfType(curves, -1) /\ \E i \in 1..3 : Type1InverseRejected(curves[i].params)
    \/ AllOfType(curves, 4) /\ \E i \in 1..3 : Type4Rejected(curves[i].params)
    \/ AllOfType(curves, -4) /\ \E i \in 1..3 : Type4InverseRejected(curves[i].params)

\* C12: translate_curve_element on a 3-channel curve set that is not
\* convertible returns true and leaves a curve of type LUT_3x1D with optimal
\* length 1024, whatever the attempted conversion had written; the pipeline
\* of that one stage translates successfully with that LUT as pre-curve.
C12_RejectedCurveSetBecomesLut ==
    (opt_op = <<"translate_curve_element">> /\ NotConvertible(TheCurveSet)) =>
        /\ translated
        /\ ThePreCurve.type = "LUT_3x1D"
        /\ ThePreCurve.optimal_len = 1024
        /\ translate_pipeline(lut).ok
        /\ translate_pipeline(lut).base.pre_curve.type = "LUT_3x1D"
        /\ translate_pipeline(lut).base.pre_curve.optimal_len = 1024

\* A type -1 set rejected at its second channel: the first channel had been
\* written as LINPOW before the LUT path took over.
C12_Witness ==
    /\ opt_op = <<"translate_curve_element">>
    /\ AllOfType(TheCurveSet, -1)
    /\ ~Type1InverseRejected(TheCurveSet[1].params)
    /\ Type1InverseRejected(TheCurveSet[2].params)
    /\ Len(ThePreCurve.params) = 1
    /\ ThePreCurve.type = "LUT_3x1D"
    /\ translated

\* C13: for a type -4 curve set, translate_curve_element_parametric fails
\* exactly when g = 0, a = 0 or c = 0 on some channel; when it succeeds the
\* curve is POWLIN with, on every channel, g' g = 1, a' a = 1, b' a = -b,
\* c' c = 1 and d' = c d; no parameter written, on success or before a
\* rejected channel, has a zero denominator.
C13_Type4InverseToPowlin ==
    (opt_op = <<"translate_curve_element_parametric">> /\ AllOfType(TheCurveSet, -4)) =>
        /\ translated = ~(\E i \in 1..3 : Type4InverseRejected(TheCurveSet[i].params))
        /\ ThePreCurve.type = "POWLIN"
        /\ translated => (Len(ThePreCurve.params) = 3)
        /\ \A i \in 1..Len(ThePreCurve.params) :
               LET p == TheCurveSet[i].params
                   q == ThePreCurve.params[i]
               IN  /\ \A k \in 1..5 : q[k][2] # 0
                   /\ RatEq(RatMul(q[1], p[1]), Rat1)
                   /\ RatEq(RatMul(q[2], p[2]), Rat1)
                   /\ RatEq(RatMul(q[3], p[2]), RatNeg(p[3]))
                   /\ RatEq(RatMul(q[4], p[4]), Rat1)
                   /\ RatEq(q[5], RatMul(p[4], p[5]))

\* A type -4 set with b = 1/2 and a = -1 on its third channel: b' = 1/2.
C13_Witness ==
    /\ opt_op = <<"translate_curve_element_parametric">>
    /\ AllOfType(TheCurveSet, -4)
    /\ translated
    /\ TheCurveSet[3].params[2] = <<-2, 2>>
    /\ TheCurveSet[3].params[3] = <<1, 2>>
    /\ RatEq(ThePreCurve.params[3][3], <<1, 2>>)
    /\ RatEq(ThePreCurve.params[3][1], <<2, 1>>)

\* C14: for a type 4 curve set, translate_curve_element_parametric fails
\* exactly when a < 0, d < 0 or a d + b < 0 on some channel; when it
\* succeeds the curve is LINPOW with g, a, b, c, d of every channel copied
\* unchanged.
C14_Type4ToLinpow ==
    (opt_op = <<"translate_curve_element_parametric">> /\ AllOfType(TheCurveSet, 4)) =>
        /\ translated = ~(\E i \in 1..3 : Type4Rejected(TheCurveSet[i].params))
        /\ ThePreCurve.type = "LINPOW"
        /\ translated =>
               /\ Len(ThePreCurve.params) = 3
               /\ \A i \in 1..3 : ThePreCurve.params[i] = TheCurveSet[i].params

\* A type 4 set accepted with a d + b = 0 on its second channel.
C14_Witness ==
    /\ opt_op = <<"translate_curve_element_parametric">>
    /\ AllOfType(TheCurveSet, 4)
    /\ translated
    /\ TheCurveSet[2].params = <<(<<1, 2>>), (<<2, 2>>), (<<-1, 2>>), (<<0, 2>>), (<<1, 2>>)>>
    /\ ThePreCurve.params[2] = TheCurveSet[2].params

\* C15: for a type -1 curve set, translate_curve_element_parametric fails
\* exactly when g = 0 on some channel; when it succeeds the curve is LINPOW
\* with exponent 1 / g and a = 1, b = 0, c = 1, d = 0 on every channel; when
\* it fails translate_curve_element takes the LUT path.
C15_Type1InverseToLinpow ==
    /\ (opt_op = <<"translate_curve_element_parametric">> /\ AllOfType(TheCurveSet, -1)) =>
          /\ translated = ~(\E i \in 1..3 : Type1InverseRejected(TheCurveSet[i].params))
          /\ ThePreCurve.type = "LINPOW"
          /\ translated =>
                 /\ Len(ThePreCurve.params) = 3
                 /\ \A i \in 1..3 :
                        /\ ThePreCurve.params[i][1][2] # 0
                        /\ RatEq(RatMul(ThePreCurve.params[i][1],
                                        TheCurveSet[i].params[1]), Rat1)
                        /\ RatEq(ThePreCurve.params[i][2], Rat1)
                        /\ RatEq(ThePreCurve.params[i][3], Rat0)
                        /\ RatEq(ThePreCurve.params[i][4], Rat1)
                        /\ RatEq(ThePreCurve.params[i][5], Rat0)
    /\ (opt_op = <<"translate_curve_element">> /\ AllOfType(TheCurveSet, -1)) =>
          /\ translated
          /\ ThePreCurve.type =
                 (IF \E i \in 1..3 : Type1InverseRejected(TheCurveSet[i].params)
                  THEN "LUT_3x1D" ELSE "LINPOW")

\* A type -1 set with g = -1/2 on its first channel: exponent -2.
C15_Witness ==
    /\ opt_op = <<"translate_curve_element_parametric">>
    /\ AllOfType(TheCurveSet, -1)
    /\ translated
    /\ TheCurveSet[1].params[1] = <<-1, 2>>
    /\ RatEq(ThePreCurve.params[1][1], <<-2, 1>>)

\* ------------------------------------------------- properties of the builder

\* ..._create_color_profile was called on the builder: it returned, having
\* destroyed the builder, or it crashed.
CreateCalled == builder.destroyed > 0 \/ builder_ret.crashed

\* The messages of the errors stored, in order, with a newline between two.
MessagesJoined(stored) ==
    [i \in 1..(2 * Len(stored) - 1) |->
        IF i % 2 = 1 THEN stored[(i + 1) \div 2][2] ELSE "\n"]

\* The codes, and the messages, of the errors stored.
StoredCodes == {builder.stored[i][1] : i \in 1..Len(builder.stored)}

StoredMessages == {builder.stored[i][2] : i \in 1..Len(builder.stored)}

\* C16: once ..._create_color_profile was called on a builder with an error
\* stored, by a setter or by the validation, the call has returned no
\* profile, the code of the first error stored, and the messages of all the
\* errors stored, in order, separated by newlines.
C16_AllErrorsReported ==
    (CreateCalled /\ builder.stored # <<>>) =>
        /\ ~builder_ret.crashed
        /\ builder_ret.cprof = NULL_info
        /\ builder_ret.err = builder.stored[1][1]
        /\ builder_ret.err_msg = MessagesJoined(builder.stored)

\* The call ended at the read of tf_info->tf with errors stored and nothing
\* reported.
C16_ErrorsStoredNothingReported ==
    /\ builder_ret.crashed
    /\ Len(builder.stored) > 1
    /\ builder_ret.err = Untouched
    /\ builder_ret.err_msg = <<Untouched>>

\* The results of the setters on builder b, by group, over the inputs
\* explored.
SetterResults(cm, b) ==
    [g \in {WESTON_COLOR_PROFILE_PARAMS_PRIMARIES, WESTON_COLOR_PROFILE_PARAMS_TF,
            WESTON_COLOR_PROFILE_PARAMS_TARGET_PRIMARIES,
            WESTON_COLOR_PROFILE_PARAMS_LUMINANCE,
            WESTON_COLOR_PROFILE_PARAMS_MAXCLL,
            WESTON_COLOR_PROFILE_PARAMS_MAXFALL} |->
        CASE g = WESTON_COLOR_PROFILE_PARAMS_PRIMARIES ->
                {weston_color_profile_param_builder_set_primaries(cm, b, v) : v \in Gamuts}
                \cup {weston_color_profile_param_builder_set_primaries_named(cm, b, v) :
                        v \in PrimariesNames}
          [] g = WESTON_COLOR_PROFILE_PARAMS_TF ->
                {weston_color_profile_param_builder_set_tf_named(cm, b, v) : v \in TfNames}
                \cup {weston_color_profile_param_builder_set_tf_power_exponent(cm, b, v) :
                        v \in PowerExponents}
          [] g = WESTON_COLOR_PROFILE_PARAMS_TARGET_PRIMARIES ->
                {weston_color_profile_param_builder_set_target_primaries(cm, b, v) :
                        v \in Gamuts}
          [] g = WESTON_COLOR_PROFILE_PARAMS_LUMINANCE ->
                {weston_color_profile_param_builder_set_target_luminance(b, v, w) :
                        v \in Luminances, w \in Luminances}
          [] g = WESTON_COLOR_PROFILE_PARAMS_MAXCLL ->
                {weston_color_profile_param_builder_set_maxCLL(b, v) :
                        v \in ContentLightLevels}
          [] OTHER ->
                {weston_color_profile_param_builder_set_maxFALL(b, v) :
                        v \in ContentLightLevels}]

\* C17: on a builder in use, every setter of a group that is already set
\* returns false, stores an ALREADY_SET error, does not destroy the builder,
\* and leaves the params and the group mask as they were.
C17_GroupSetAtMostOnce ==
    BuilderUsable =>
        \A g \in builder.group_mask :
            \A r \in SetterResults(color_manager, builder)[g] :
                /\ ~r.ret
                /\ r.builder.params = builder.params
                /\ r.builder.group_mask = builder.group_mask
                /\ r.builder.destroyed = 0
                /\ \E i \in (Len(builder.stored) + 1)..Len(r.builder.stored) :
                       r.builder.stored[i][1] = "ALREADY_SET"
                /\ r.builder.has_errors

\* A second setter of the primaries was called after set_primaries_named,
\* returned false, and the named primaries are still stored.
C17_Witness ==
    /\ BuilderUsable
    /\ ~builder_ret.ret
    /\ builder.stored = <<(<<"ALREADY_SET", "primaries were already set">>)>>
    /\ builder.params.primaries_info = "CICP_SRGB"
    /\ builder.params.primaries = weston_color_primaries_info_from("CICP_SRGB")
    /\ builder.group_mask = {WESTON_COLOR_PROFILE_PARAMS_PRIMARIES}

\* C18: once ..._create_color_profile was called on the builder, whether
\* validation failed, the colour manager failed or a profile was returned,
\* the builder has been destroyed exactly once.
C18_DestroyedExactlyOnce ==
    CreateCalled => builder.destroyed = 1

\* The call ended at the read of tf_info->tf, before the builder was
\* destroyed.
C18_BuilderNeverDestroyed ==
    /\ builder_ret.crashed
    /\ builder.destroyed = 0

\* C19: once ..._create_color_profile was called on a builder without an
\* earlier error whose primaries or transfer function were never set, the
\* call has returned, with no profile, the INCOMPLETE_SET code and the
\* messages of the missing groups.
C19_IncompleteSetReported ==
    (/\ CreateCalled
     /\ {WESTON_COLOR_PROFILE_PARAMS_PRIMARIES, WESTON_COLOR_PROFILE_PARAMS_TF}
            \ builder.group_mask # {}
     /\ builder.stored[1][1] = "INCOMPLETE_SET") =>
        /\ ~builder_ret.crashed
        /\ builder_ret.cprof = NULL_info
        /\ builder_ret.err = "INCOMPLETE_SET"
        /\ (WESTON_COLOR_PROFILE_PARAMS_PRIMARIES \notin builder.group_mask) =>
               \E i \in 1..Len(builder_ret.err_msg) :
                   builder_ret.err_msg[i] = "primaries not set"
        /\ (WESTON_COLOR_PROFILE_PARAMS_TF \notin builder.group_mask) =>
               \E i \in 1..Len(builder_ret.err_msg) :
                   builder_ret.err_msg[i] = "transfer function not set"

\* The primaries were set, the transfer function was not, and the call ended
\* at the read of tf_info->tf through the null tf_info.
C19_NullTfInfoRead ==
    /\ builder_ret.crashed
    /\ builder.params.tf_info = NULL_info
    /\ builder.group_mask = {WESTON_COLOR_PROFILE_PARAMS_PRIMARIES}
    /\ builder.stored = <<(<<"INCOMPLETE_SET", "transfer function not set">>)>>

\* C20: once ..._create_color_profile has returned for a builder with the
\* target luminance set, an inconsistent-luminances error about maxCLL is
\* stored exactly when maxCLL was set and is not within
\* min_luminance .. max_luminance, and likewise for maxFALL; with
\* min_luminance = 100, max_luminance = 500 and maxCLL = 50 the call fails.
C20_LightLevelsWithinLuminance ==
    (/\ builder.destroyed > 0
     /\ WESTON_COLOR_PROFILE_PARAMS_LUMINANCE \in builder.group_mask) =>
        LET p == builder.params
            cll_rejected ==
                StoredMessages \cap
                    {"maxCLL should be greater or equal to min luminance",
                     "maxCLL should not be greater than max luminance"} # {}
            fall_rejected ==
                StoredMessages \cap
                    {"maxFALL should be greater or equal to min luminance",
                     "maxFALL should not be greater than max luminance"} # {}
        IN  /\ (WESTON_COLOR_PROFILE_PARAMS_MAXCLL \in builder.group_mask) =>
                   (cll_rejected <=>
                        ~(p.min_luminance <= p.maxCLL /\ p.maxCLL <= p.max_luminance))
            /\ (WESTON_COLOR_PROFILE_PARAMS_MAXFALL \in builder.group_mask) =>
                   (fall_rejected <=>
                        ~(p.min_luminance <= p.maxFALL /\ p.maxFALL <= p.max_luminance))
            /\ (cll_rejected \/ fall_rejected) =>
                   /\ "INCONSISTENT_LUMINANCES" \in StoredCodes
                   /\ builder_ret.cprof = NULL_info
            /\ (/\ WESTON_COLOR_PROFILE_PARAMS_MAXCLL \in builder.group_mask
                /\ p.min_luminance = 100 /\ p.max_luminance = 500 /\ p.maxCLL = 50) =>
                   builder_ret.cprof = NULL_info

\* A PQ builder with luminance 100 .. 500 and maxCLL = 100 = min_luminance:
\* the only error is the one about maxCLL, and no profile is returned.
C20_EqualToMinRejected ==
    /\ builder.destroyed = 1
    /\ builder.params.tf_info = "ST2084_PQ"
    /\ builder.params.min_luminance = 100
    /\ builder.params.max_luminance = 500
    /\ builder.params.maxCLL = 100
    /\ builder.stored = <<(<<"INCONSISTENT_LUMINANCES",
                             "maxCLL should be greater or equal to min luminance">>)>>
    /\ builder_ret.err = "INCONSISTENT_LUMINANCES"
    /\ builder_ret.cprof = NULL_info

\* ---------------------------------------- properties of the gamut validation

\* On which side of the line from a to b the point p lies.
Cross(a, b, p) == (b.x - a.x) * (p.y - a.y) - (b.y - a.y) * (p.x - a.x)

\* The white point's side of each edge of the triangle of the primaries.
Sides(gamut) ==
    <<Cross(gamut.primary[1], gamut.primary[2], gamut.white_point),
      Cross(gamut.primary[2], gamut.primary[3], gamut.white_point),
      Cross(gamut.primary[3], gamut.primary[1], gamut.white_point)>>

Degenerate(gamut) == Cross(gamut.primary[1], gamut.primary[2], gamut.primary[3]) = 0

StrictlyInside(gamut) ==
    \/ \A i \in 1..3 : Sides(gamut)[i] > 0
    \/ \A i \in 1..3 : Sides(gamut)[i] < 0

Outside(gamut) ==
    /\ ~Degenerate(gamut)
    /\ \E i \in 1..3, j \in 1..3 : Sides(gamut)[i] > 0 /\ Sides(gamut)[j] < 0

\* The validation stored an error about the gamut of that name.
GamutRejected(gamut_name) ==
    StoredMessages \cap {"invalid " \o gamut_name,
                         "white point out of " \o gamut_name \o " volume"} # {}

\* C21: once ..._create_color_profile has returned, a gamut that was set and
\* about which no error is stored has its white point strictly inside the
\* triangle of its primaries (a white point on an edge or at a vertex is
\* rejected).
C21_AcceptedWhiteStrictlyInside ==
    builder.destroyed = 1 =>
        /\ (/\ WESTON_COLOR_PROFILE_PARAMS_PRIMARIES \in builder.group_mask
            /\ ~GamutRejected("primaries")) =>
               StrictlyInside(builder.params.primaries)
        /\ (/\ WESTON_COLOR_PROFILE_PARAMS_TARGET_PRIMARIES \in builder.group_mask
            /\ ~GamutRejected("target primaries")) =>
               StrictlyInside(builder.params.target_primaries)

\* The white point (0.303, 0.300) on the edge from (0.300, 0.300) to
\* (0.306, 0.300) went through the validation without an error.
C21_WhiteOnEdgeAccepted ==
    /\ builder.destroyed = 1
    /\ builder.params.primaries =
           ColorGamut(Point(300, 300), Point(306, 300), Point(300, 310), Point(303, 300))
    /\ WESTON_COLOR_PROFILE_PARAMS_PRIMARIES \in builder.group_mask
    /\ builder.stored = <<>>
    /\ builder_ret.cprof = "cprof"

C22_WhiteOutsideAccepted ==
    /\ builder.destroyed = 1
    /\ builder.params.primaries =
           ColorGamut(Point(300, 300), Point(306, 300), Point(300, 310), Point(303, 299))
    /\ WESTON_COLOR_PROFILE_PARAMS_PRIMARIES \in builder.group_mask
    /\ builder.stored = <<>>
    /\ builder_ret.cprof = "cprof"

\* By how much the areas of the three triangles that the white point forms
\* with the edges exceed the area of the triangle of the primaries, and that
\* area; both doubled, in units of 1e-6.
AreaExcess(gamut) ==
    Abs(Sides(gamut)[1]) + Abs(Sides(gamut)[2]) + Abs(Sides(gamut)[3])
        - Abs(Cross(gamut.primary[1], gamut.primary[2], gamut.primary[3]))

\* The white point is outside by more than the tolerance of 1e-5, or the
\* triangle has an area of at most 1e-5.
OutsideBeyondTolerance(gamut) ==
    \/ Abs(Cross(gamut.primary[1], gamut.primary[2], gamut.primary[3])) <= 20
    \/ AreaExcess(gamut) > 20

LuminanceGroups ==
    {WESTON_COLOR_PROFILE_PARAMS_LUMINANCE, WESTON_COLOR_PROFILE_PARAMS_MAXCLL,
     WESTON_COLOR_PROFILE_PARAMS_MAXFALL}

\* C23: once ..._create_color_profile has returned, a profile was returned
\* only if none of target luminance, maxCLL and maxFALL is set or the
\* transfer function is ST2084_PQ; if one of them is set and another transfer
\* function was set, no profile was returned and an INCONSISTENT_SET error
\* is stored and reported (as the error code when it is the first error).
C23_LuminanceOnlyWithPQ ==
    builder.destroyed = 1 =>
        /\ builder_ret.cprof # NULL_info =>
               \/ builder.group_mask \cap LuminanceGroups = {}
               \/ builder.params.tf_info = "ST2084_PQ"
        /\ (/\ builder.group_mask \cap LuminanceGroups # {}
            /\ builder.params.tf_info \notin {NULL_info, "ST2084_PQ"}) =>
               /\ builder_ret.cprof = NULL_info
               /\ \E i \in 1..Len(builder.stored) :
                      /\ builder.stored[i][1] = "INCONSISTENT_SET"
                      /\ \E j \in 1..Len(builder_ret.err_msg) :
                             builder_ret.err_msg[j] = builder.stored[i][2]
                      /\ i = 1 => builder_ret.err = "INCONSISTENT_SET"

\* sRGB primaries and transfer function with maxFALL alone: the only error
\* is INCONSISTENT_SET.
C23_Witness ==
    /\ builder.destroyed = 1
    /\ builder.params.tf_info = "SRGB"
    /\ builder.group_mask = {WESTON_COLOR_PROFILE_PARAMS_PRIMARIES,
                             WESTON_COLOR_PROFILE_PARAMS_TF,
                             WESTON_COLOR_PROFILE_PARAMS_MAXFALL}
    /\ Len(builder.stored) = 1
    /\ builder_ret.err = "INCONSISTENT_SET"
    /\ builder_ret.cprof = NULL_info

\* --------------------------------------- more properties of the profile store

\* C24: a cmlcms_get_color_profile_from_icc call on a buffer whose major
\* version is neither 2 nor 4, whose colour space has not 3 channels or whose
\* device class is not Display returns false with an error message and no
\* profile, leaves the profiles (reference counts included), the profile
\* list and the transforms as they were, and fails no assertion.
C24_InvalidIccRejected ==
    [][(/\ calls' = calls + 1
        /\ ret'.op = "cmlcms_get_color_profile_from_icc"
        /\ \/ ret'.arg.version \notin {2, 4}
           \/ ret'.arg.channels # 3
           \/ ret'.arg.class # "Display") =>
           /\ ~ret'.ok
           /\ ret'.errmsg # ""
           /\ ret'.cprof = NULL
           /\ cprofs' = cprofs
           /\ color_profile_list' = color_profile_list
           /\ xforms' = xforms
           /\ color_transform_list' = color_transform_list
           /\ asserted' = asserted]_vars

\* A 4-channel buffer was turned down while another profile was in the list.
C24_Witness ==
    /\ ret.op = "cmlcms_get_color_profile_from_icc"
    /\ ret.arg.channels = 4
    /\ ~ret.ok
    /\ ret.errmsg = "ICC profile must contain 3 channels for the color space."
    /\ Len(color_profile_list) = 2
    /\ ~asserted

\* C25: the extract of a profile is made at most once: a profile has its
\* extract exactly when it was made once, and ensure_output_profile_extract
\* on a profile that has it returns true and leaves every object as it is.
C25_ExtractComputedOnce ==
    \A p \in ProfileSlots :
        cprofs[p].alive =>
            /\ cprofs[p].extract_made <= 1
            /\ cprofs[p].extract <=> cprofs[p].extract_made = 1
            /\ cprofs[p].extract =>
                   ensure_output_profile_extract(TheHeap, p) = [ok |-> TRUE, h |-> TheHeap]

\* Two transforms were made to the same output profile, which is not the
\* stock one: its extract was asked for twice and made once.
C25_Witness ==
    \E p \in ProfileSlots \ {sRGB_profile} :
        /\ cprofs[p].alive
        /\ cprofs[p].extract_made = 1
        /\ \E x \in TransformSlots, y \in TransformSlots :
               /\ x # y
               /\ xforms[x].alive /\ xforms[y].alive
               /\ xforms[x].search_key.output_profile = p
               /\ xforms[y].search_key.output_profile = p

\* ------------------------------------------------- properties of the teardown

\* The call just made is cmlcms_destroy.
DestroyStep == ~CmDestroyed /\ CmDestroyed'

\* Profiles or transforms that callers still hold references to.
OutstandingProfiles ==
    \E p \in ProfileSlots : cprofs[p].alive /\ CallerRefs(p) > 0

OutstandingTransforms == color_transform_list # <<>>

\* C26: destroying the colour manager while profiles or transforms still
\* have outstanding references logs the leak, empties both lists and
\* completes: no assertion fails and the colour manager is freed.
C26_TeardownWithReferencesCompletes ==
    [][DestroyStep /\ (OutstandingProfiles \/ OutstandingTransforms)
           => /\ ret'.errmsg = "BUG"
              /\ color_profile_list' = <<>>
              /\ color_transform_list' = <<>>
              /\ ~asserted'
              /\ ret'.ok]_vars

\* cmlcms_destroy was called with a transform still on the list, in a build
\* with assert(): the process was aborted.
C26_TeardownAborted ==
    /\ CmDestroyed
    /\ ret.arg = FALSE
    /\ color_transform_list # <<>>
    /\ asserted
    /\ ~ret.ok

\* With profiles only outstanding, the teardown logs, empties the profile
\* list and completes.
C26_ProfilesOnlyCompletes ==
    [][DestroyStep /\ OutstandingProfiles /\ ~OutstandingTransforms
           => /\ ret'.errmsg = "BUG"
              /\ color_profile_list' = <<>>
              /\ \A p \in ProfileSlots : ~cprofs'[p].alive
              /\ ~asserted'
              /\ ret'.ok]_vars

\* ------------------------------------------- properties of the transform chains

\* The profiles a chain can be formed from: ICC profiles, and as output one
\* whose extract is there.
ChainInputs ==
    {p \in ProfileSlots : cprofs[p].alive /\ cprofs[p].type = CMLCMS_PROFILE_TYPE_ICC}

ChainOutputs == {p \in ChainInputs : cprofs[p].extract}

\* Stage B holds, channel by channel, the reversed curves of stage A: B
\* undoes A.
UndoneBy(A, B) ==
    /\ A.type = cmsSigCurveSetElemType
    /\ B.type = cmsSigCurveSetElemType
    /\ Len(A.TheCurves) = Len(B.TheCurves)
    /\ \A i \in 1..Len(A.TheCurves) : B.TheCurves[i] = cmsReverseToneCurve(A.TheCurves[i])

\* The chains of two profiles compose: input-to-blend ends with the stage
\* that blend-to-output begins with the reverse of, and what is left of the
\* two, one after the other, is the input-to-output chain.
ChainsCompose(input_icc, output_icc) ==
    LET to_blend  == xform_chain_pipeline(CMLCMS_CATEGORY_INPUT_TO_BLEND,
                                          input_icc, output_icc)
        to_output == xform_chain_pipeline(CMLCMS_CATEGORY_BLEND_TO_OUTPUT,
                                          NoIccData, output_icc)
        direct    == xform_chain_pipeline(CMLCMS_CATEGORY_INPUT_TO_OUTPUT,
                                          input_icc, output_icc)
    IN  /\ to_blend # <<>>
        /\ to_output # <<>>
        /\ UndoneBy(to_blend[Len(to_blend)], to_output[1])
        /\ SubSeq(to_blend, 1, Len(to_blend) - 1) \o Tail(to_output) = direct

SurfaceTransformReturned ==
    /\ ret.op = "cmlcms_color_transform_get"
    /\ ret.ok
    /\ ret.arg.category = CMLCMS_CATEGORY_INPUT_TO_BLEND

\* The calibration curves of a profile change no value.
VcgtIsIdentity(icc) ==
    \A i \in 1..Len(VcgtTag(icc)) : cmsIsToneCurveLinear(VcgtTag(icc)[i])

\* Surface content shown on the output comes out as it went in: the output
\* profile's conversion from the connection space undoes the input
\* profile's conversion to it, and the calibration curves applied after it
\* change nothing.
EndToEndIdentity(input_icc, output_icc) ==
    /\ DeviceToPCS(input_icc) = DeviceToPCS(output_icc)
    /\ VcgtIsIdentity(output_icc)

\* C28: cmlcms_get_surface_color_transform sets identity_pipeline to true
\* exactly when the transformation from the surface's profile to the
\* output, end to end, is the identity.
C28_HintIffEndToEndIdentity ==
    SurfaceTransformReturned =>
        (ret.identity_pipeline <=>
            EndToEndIdentity(cprofs[ret.arg.input_profile].icc,
                             cprofs[ret.arg.output_profile].icc))

\* The hint is true for a surface and an output that carry the same
\* profile, whose calibration curves are not the identity.
C28_HintTrueWithCalibration ==
    /\ SurfaceTransformReturned
    /\ ret.identity_pipeline
    /\ ret.arg.input_profile = ret.arg.output_profile
    /\ ~VcgtIsIdentity(cprofs[ret.arg.output_profile].icc)

\* What the code does decide: the hint is true exactly when both profiles
\* are the same object.
C28_HintIffSameProfile ==
    SurfaceTransformReturned =>
        (ret.identity_pipeline <=> ret.arg.input_profile = ret.arg.output_profile)

\* ---------------------------------------------- properties of the id allocator

\* C29: every id weston_idalloc_get_id returns is non-zero and is none of
\* the ids handed out and not put back; the ids handed out are marked as
\* taken and 0 is not among them.
C29_IdsUnique ==
    /\ id_ret.op = "weston_idalloc_get_id" /\ ~id_ret.asserted
           => id_ret.id # 0 /\ id_ret.fresh
    /\ 0 \notin ids
    /\ \A id \in ids :
           /\ id \div BucketBits < idalloc.num_buckets
           /\ id % BucketBits \in idalloc.buckets[id \div BucketBits]

\* After the allocator grew, with 63 ids handed out, an id that was put
\* back is handed out again.
C29_Witness ==
    /\ id_ret.op = "weston_idalloc_get_id"
    /\ ~id_ret.asserted
    /\ id_ret.id = 1
    /\ idalloc.num_buckets = 4
    /\ Cardinality(ids) = 63

\* ---------------------------------------------- properties of the HDR metadata

\* A float is a number within [lo, hi], in units of 0.0001.
InRange(value, lo, hi) == value[1] = "num" /\ lo <= value[2] /\ value[2] <= hi

\* C30: cmlcms_get_hdr_meta returns true for every input, NaN included, and
\* each field it flags in group_mask lies in its range: chromaticities in
\* [0, 1], maxDML, maxCLL and maxFALL in [1, 65535], minDML in
\* [0.0001, 6.5535].
C30_HdrMetaInRange ==
    hdr_ret # "not called" =>
        /\ hdr_ret = "true"
        /\ "PRIMARIES" \in hdr_meta.group_mask =>
               \A i \in 1..3 : /\ InRange(hdr_meta.primary[i].x, 0, 10000)
                               /\ InRange(hdr_meta.primary[i].y, 0, 10000)
        /\ "WHITE" \in hdr_meta.group_mask =>
               /\ InRange(hdr_meta.white.x, 0, 10000)
               /\ InRange(hdr_meta.white.y, 0, 10000)
        /\ "MAXDML" \in hdr_meta.group_mask => InRange(hdr_meta.maxDML, 10000, 655350000)
        /\ "MAXCLL" \in hdr_meta.group_mask => InRange(hdr_meta.maxCLL, 10000, 655350000)
        /\ "MAXFALL" \in hdr_meta.group_mask => InRange(hdr_meta.maxFALL, 10000, 655350000)
        /\ "MINDML" \in hdr_meta.group_mask => InRange(hdr_meta.minDML, 1, 65535)

\* The metadata was made from a NaN minimum luminance, and flags minDML.
C30_Witness ==
    /\ hdr_ret = "true"
    /\ hdr_output.cc.min_luminance = NaN
    /\ "MINDML" \in hdr_meta.group_mask

\* ------------------------------------------ properties of a failed transform

\* The call just made is cmlcms_color_transform_get and it returned NULL.
TransformGetFailed ==
    /\ calls' = calls + 1
    /\ ret'.op = "cmlcms_color_transform_get"
    /\ ~ret'.ok

\* C33: when building a transform fails, cmlcms_color_transform_get returns
\* NULL, the transform registry is as it was before the call, and so are the
\* reference counts of all profiles, the input and the output profile among
\* them.
C33_FailedTransformLeavesNothing ==
    [][TransformGetFailed =>
           /\ ret'.xform = NULL
           /\ color_transform_list' = color_transform_list
           /\ xforms' = xforms
           /\ color_profile_list' = color_profile_list
           /\ \A p \in ProfileSlots :
                  /\ cprofs'[p].alive = cprofs[p].alive
                  /\ cprofs'[p].ref_count = cprofs[p].ref_count]_vars

\* The call failed because the output profile's extract cannot be computed.
C33_Witness ==
    /\ ret.op = "cmlcms_color_transform_get"
    /\ ~ret.ok
    /\ cprofs[ret.arg.output_profile].alive
    /\ cprofs[ret.arg.output_profile].type = CMLCMS_PROFILE_TYPE_ICC
    /\ ~cprofs[ret.arg.output_profile].extract
    /\ cprofs[ret.arg.output_profile].ref_count = 1

\* The call failed in xform_realize_chain: the output profile is parametric.
C33_ParametricFailed ==
    /\ ret.op = "cmlcms_color_transform_get"
    /\ ~ret.ok
    /\ cprofs[ret.arg.output_profile].alive
    /\ cprofs[ret.arg.output_profile].type = CMLCMS_PROFILE_TYPE_PARAMS

\* ------------------------------------------- properties of the optimizer's end

\* A pass r over a pipeline of n stages never adds a stage, and removes at
\* least one when it reports a modification.
PassShrinks(r, n) ==
    /\ Len(r.pipe) <= n
    /\ r.modified => Len(r.pipe) < n

\* C34: lcms_optimize_pipeline terminates: a pass of merge_matrices or of
\* merge_curvesets never makes the pipeline longer and makes it shorter
\* whenever it reports a modification, on the pipelines handed in and on
\* those the passes produce; so the loop runs at most one round more than
\* the pipeline has stages.
C34_PassesShrinkPipeline ==
    /\ PassShrinks(merge_matrices(lut), Len(lut))
    /\ PassShrinks(merge_curvesets(lut), Len(lut))
    /\ opt_op = <<"optimize">> =>
           /\ opt_res.rounds <= Len(lut_in) + 1
           /\ Len(lut) <= Len(lut_in)

\* The loop ran three rounds on a pipeline of three stages and emptied it:
\* a stage went in each of the first two rounds.
C34_Witness ==
    /\ opt_op = <<"optimize">>
    /\ Len(lut_in) = 3
    /\ opt_res.rounds = 3
    /\ lut = <<>>

\* ------------------------------------------- properties of the allocator grown

\* The allocator has doubled its buckets at least once.
Grown == idalloc.num_buckets > weston_idalloc_create.num_buckets

\* C35: the buckets update_lowest_free_bucket adds hold no id: a bit set
\* in them is an id handed out since, and weston_idalloc_get_id does not
\* fail its assertion that the lowest free bucket is not full.
C35_NewBucketsFree ==
    /\ \A b \in weston_idalloc_create.num_buckets..(idalloc.num_buckets - 1) :
           \A i \in idalloc.buckets[b] : BucketBits * b + i \in ids
    /\ ~(id_ret.op = "weston_idalloc_get_id" /\ id_ret.asserted)

\* The allocator grew when id 63 was handed out, and the next
\* weston_idalloc_get_id failed its assertion with 63 ids in use.
C35_GrownThenAsserted ==
    /\ Grown
    /\ id_ret.op = "weston_idalloc_get_id"
    /\ id_ret.asserted
    /\ Cardinality(ids) = 63

\* C36: between operations every bucket below lowest_free_bucket is full
\* and the bucket at lowest_free_bucket is not, and the id
\* weston_idalloc_get_id returned is the smallest one that was not in use.
C36_LowestFreeBucketIsLowest ==
    /\ \A b \in 0..(idalloc.lowest_free_bucket - 1) :
           idalloc.buckets[b] = FullBucket
    /\ idalloc.buckets[idalloc.lowest_free_bucket] # FullBucket
    /\ id_ret.op = "weston_idalloc_get_id" /\ ~id_ret.asserted
           => \A k \in 1..(id_ret.id - 1) : k \in ids

\* Ids 64 and 65 are in no caller's hands and weston_idalloc_get_id
\* returned 66.
C36_SkippedFreeIds ==
    /\ id_ret.op = "weston_idalloc_get_id"
    /\ ~id_ret.asserted
    /\ id_ret.id = 66
    /\ 64 \notin ids
    /\ 65 \notin ids

\* Until the allocator grows the claim's invariant holds, an id put back
\* being the next one handed out.
C36_HoldsUntilGrown == ~Grown => C36_LowestFreeBucketIsLowest

\* --------------------------------------------- properties of the ICC creator

\* A step that serves a set_icc_file request with a length outside (0, 4 MiB].
BadSizeSetIccFile ==
    /\ client'.requests = client.requests + 1
    /\ client'.last.op = "cm_creator_icc_set_icc_file"
    /\ (client'.last.length = 0 \/ client'.last.length > MaxIccSize)

\* The descriptor of the request was closed, once, and the creator holds
\* what it held.
RejectedSetIccFile ==
    /\ client'.fds[client'.last.fd].closes = 1
    /\ client'.cm_creator_icc = client.cm_creator_icc

\* C31 as stated: a set_icc_file request whose length is 0 or above 4 MiB
\* is answered with BAD_SIZE, its descriptor is closed and the creator's
\* descriptor, offset and length stay as they were.
C31_BadSizeRejected ==
    [][BadSizeSetIccFile =>
           client'.last.error = "BAD_SIZE" /\ RejectedSetIccFile]_vars

\* C31, amended: the error is BAD_SIZE on a creator whose file has not
\* been set and ALREADY_SET on one whose file has; in both cases the
\* descriptor is closed and the creator's descriptor, offset and length stay
\* as they were.
C31_BadSizeOrAlreadySet ==
    [][BadSizeSetIccFile =>
           /\ client'.last.error =
                  IF client.cm_creator_icc.icc_data_length > 0
                  THEN "ALREADY_SET" ELSE "BAD_SIZE"
           /\ RejectedSetIccFile]_vars

\* A length of 4 MiB + 1 was answered with BAD_SIZE and the descriptor
\* closed.
C31_Witness ==
    /\ client.last.op = "cm_creator_icc_set_icc_file"
    /\ client.last.length = MaxIccSize + 1
    /\ client.last.error = "BAD_SIZE"
    /\ client.fds[client.last.fd].closes = 1
    /\ client.cm_creator_icc.icc_profile_fd = -1

\* C32: get_information on an image description the ICC creator made is
\* answered with NO_INFORMATION, and no event is sent.
C32_NoInformationForIcc ==
    /\ client.last.op = "image_description_get_information"
    /\ client.image_descs[client.last.desc].from_icc
    => /\ client.last.error = "NO_INFORMATION"
       /\ client.last.events = <<>>

C32_Witness ==
    /\ client.last.op = "image_description_get_information"
    /\ client.image_descs[client.last.desc].from_icc
    /\ client.image_descs[client.last.desc].cprof # sRGB_profile
    /\ client.last.error = "NO_INFORMATION"

\* The image descriptions whose backing object holds profile cprof.
ImageDescsOf(cprof) ==
    {d \in ImageDescSlots :
        client.image_descs[d].allocated /\ client.image_descs[d].cprof = cprof}

\* C37: a profile has one reference for each image description holding it,
\* besides the colour manager's own on the stock profile, and a profile
\* that is gone is held by none; an image description whose creation
\* failed has no backing object and no profile, and no resource points to
\* a backing object that was freed.
C37_OneReferencePerImageDesc ==
    /\ \A cprof \in ProfileSlots :
           IF cprofs[cprof].alive
           THEN CallerRefs(cprof) = Cardinality(ImageDescsOf(cprof))
           ELSE ImageDescsOf(cprof) = {}
    /\ \A d \in ImageDescSlots :
           /\ client.image_descs[d].user_data = client.image_descs[d].allocated
           /\ ~client.image_descs[d].allocated => client.image_descs[d].cprof = NULL
           /\ client.image_descs[d].allocated => client.image_descs[d].owner

\* The stock profile is held by the colour manager, by an image description
\* made from an ICC file and by one made for an output.
C37_Witness ==
    /\ cprofs[sRGB_profile].ref_count = 3
    /\ \E d \in ImageDescsOf(sRGB_profile) : client.image_descs[d].from_icc
    /\ \E d \in ImageDescsOf(sRGB_profile) : ~client.image_descs[d].from_icc

\* C39: once cm_creator_icc_create has been served the creator resource is
\* gone.
C39_CreateDestroysCreator ==
    client.last.op = "cm_creator_icc_create" => ~client.cm_creator_icc.owner

\* create was answered with INCOMPLETE_SET and the creator is still there.
C39_IncompleteSetKeepsCreator ==
    /\ client.last.op = "cm_creator_icc_create"
    /\ client.last.error = "INCOMPLETE_SET"
    /\ client.cm_creator_icc.owner

\* What the code does: the creator outlives create only when create
\* posted INCOMPLETE_SET or could not make the image description's
\* resource, and it goes when the client does.
C39_CreatorOutlivesCreateOnlyOnError ==
    /\ client.last.op = "cm_creator_icc_create" /\ client.cm_creator_icc.owner
           => /\ client.last.error \in {"INCOMPLETE_SET", "NO_MEMORY"}
              /\ ~client.image_descs[client.last.desc].owner
    /\ ~client.connected => ~client.cm_creator_icc.owner

\* ----------------------------------------- properties of a failed cmlcms_init

\* C38: after cmlcms_create_stock_profile failed, a stock profile that
\* cm->sRGB_profile or the profile list still refers to has its description
\* and its LittleCMS handle, and cmlcms_destroy frees no description and
\* closes no handle a second time.
C38_FailedStockProfileNotReferenced ==
    /\ stock.init = "failed" /\ ~CmDestroyed
           /\ (stock.sRGB_profile # NULL \/ color_profile_list # <<>>)
           => stock.description_frees = 0 /\ stock.profile_closes = 0
    /\ stock.description_frees <= 1
    /\ stock.profile_closes <= 1

\* ensure_output_profile_extract failed, and cmlcms_destroy freed the
\* description and closed the handle a second time.
C38_StockReleasedTwice ==
    /\ stock.init = "failed"
    /\ CmDestroyed
    /\ stock.description_frees = 2
    /\ stock.profile_closes = 2

\* Every other failure of cmlcms_create_stock_profile leaves no profile
\* object behind.
C38_EarlierFailuresLeaveNothing ==
    /\ ret.op = "cmlcms_init"
    /\ ret.arg # "ensure_output_profile_extract"
    /\ ~ret.ok
    => stock.sRGB_profile = NULL /\ color_profile_list = <<>>

\* ------------------------------------------ properties of the Android backend

\* C40: android_destroy makes no access to the backend object after
\* free(b).
C40_NoAccessAfterFree ==
    /\ android.freed_accesses = 0
    /\ ~android.crashed

\* android_destroy ran, and b->android_touch_device and b->android_seat
\* were used after free(b).
C40_InputDestroyedAfterFree ==
    /\ android.b = "freed"
    /\ android.formats = "freed"
    /\ android.freed_accesses = 2

====
